---------------------------- MODULE Spec2Model ----------------------------
(***************************************************************************)
(* A model of the TFT assistant (LouisY06/TFT): the discard query of the   *)
(* voice assistant, the champion matcher, the two HTTP retry loops, the    *)
(* shop polling thread and main's startup pipeline.  Each part is a small  *)
(* state machine over its own variables; a specification of one part       *)
(* leaves the variables of the other parts unchanged.                      *)
(***************************************************************************)
EXTENDS Integers, Sequences, FiniteSets, TLC

VARIABLES
    \* ---- assistant/voice_assistant.py and comps_html/html_to_json.py ----
    comps_file,     \* data/comps_output.json: [exists, writer, data]
    comp_data,      \* voice_assistant.comp_data, the list loaded at import
    va_pc,          \* "idle" | "start" | "parsed" | "loaded" | "import_failed" |
                    \* "done"
    inv_champs,     \* the roster of the last handle_inventory_query call
    inv_gold,       \* its gold argument
    inv_result,     \* its outcome: [raised, response]
    \* ---- ocr/matching.py: one call of match_champ ----
    m_champions,    \* the champions argument
    m_name,         \* the name argument
    m_use_fuzzy,    \* the use_fuzzy argument
    m_threshold,    \* the threshold argument
    m_pc,           \* "idle" | "call" | "returned"
    m_result,       \* [raised, idx]: idx is the position of the entry
                    \* returned, 0 for None
    \* ---- assistant/gemini_service.py: one call of _make_request ----
    g_max_retries,  \* config.max_retries
    g_retry_delay,  \* config.retry_delay
    g_attempt,      \* the loop variable attempt
    g_pc,           \* "idle" | "loop" | "done"
    g_history,      \* what each POST so far ended in, in order
    g_waits,        \* the time.sleep arguments so far, in order
    g_result,       \* [kind, msg]: the JSON returned or the exception raised
    \* ---- scraper.py: one call of scrape_to_json ----
    s_max_retries,  \* the max_retries argument
    s_attempt,      \* the loop variable attempt
    s_pc,           \* "idle" | "fetch" | "parse" | "save" | "done"
    s_history,      \* what each GET so far ended in, in order
    s_waits,        \* the time.sleep arguments so far, in order
    s_stage,        \* [parsed, saved]: how parsing and saving went
    s_files,        \* the files the call has created in output_dir
    s_result,       \* the pair returned: [champs, traits]
    \* ---- main.py: the shop_monitor thread ----
    mon_pc,         \* "idle" | "wait" (in wait_for_shop) | "visible" (at the
                    \* while condition) | "cycle" (in the while body)
    mon_log,        \* what the thread has done so far, in order
    mon_slept,      \* the last time.sleep of the loop, in tenths of a second
    \* ---- main.py: main and cleanup ----
    main_pc,        \* where the program is: "import", "import_error", a
                    \* step of main, "returned", "raised" or "exited"
    main_events,    \* the startup steps main has begun, in order
    data_files,     \* the JSON files present in the data directory
    written,        \* the files of data_files' directory this run has written
    html_dir,       \* whether the comps_html directory exists
    threads,        \* shop-monitor threads started
    hotkeys,        \* whether the hotkey listener was started
    champs_path,    \* the first component of scrape_to_json's result
    champions_loaded, \* whether load_champ has returned the champion list
    \* ---- assistant/rules_engine.py: calls of process_voice_query ----
    pv_key,         \* whether GEMINI_API_KEY is set to a non-empty value
    pv_files,       \* champions.json and comps_output.json of DATA_DIR:
                    \* each "missing" | "valid" | "invalid" (not JSON)
    pv_assistant,   \* whether _global_assistant holds a TFTAssistant
    pv_pc,          \* "idle" | "call" | "method" | "load" | "ask" | "done"
    pv_query,       \* the query argument
    pv_manual,      \* what parse_user_game_state returned
    pv_vision,      \* vision_data: the stats dict, or None
    pv_state,       \* manual_state after the merge
    pv_result,      \* [raised, value]: the exception propagated or the
                    \* string returned
    \* ---- assistant/manual_input_handler.py: one call of parse_voice_input
    p_champs_file,  \* data/champions.json when the handler was made:
                    \* [kind, entries], kind "missing" | "invalid" | "list"
    p_query,        \* the query argument, as its words in order
    p_pc,           \* "idle" | "call" | "returned"
    p_state,        \* the GameStateInput filled in from the query
    p_result,       \* the GameStateInput returned, or None
    \* ---- config/settings.py: one ConfigManager ----
    c_env,          \* the environment variables _apply_env_overrides reads
    c_file,         \* config.json: [kind, writer, data]
    c_settings,     \* self._settings: [loaded, s], loaded FALSE for None
    c_reads,        \* how often config file and environment were read
    c_last,         \* the last call: "" | "load" | "cached" | "save" |
                    \* "update"
    c_returned,     \* what the last load or get_settings returned
    \* ---- ocr/detect_shop.py: one call of wait_for_shop ----
    w_args,         \* "ok" | "bad_confidence" | "no_image"
    w_timeout,      \* the timeout argument: None, or seconds
    w_elapsed,      \* time.time() - start_time, in whole seconds
    w_pc,           \* "idle" | "call" | "loop" | "done"
    w_log,          \* what each detection attempt ended in, in order
    w_result,       \* "" | "True" | "False" | the exception raised
    \* ---- assistant/tts_utils.py: one call of speak ----
    t_text,         \* the text argument
    t_pc,           \* "idle" | "call" | "run" | "done"
    t_ran,          \* whether the say command was invoked
    t_said,         \* the text handed to it: [len, ellipsis]
    t_outcome,      \* how subprocess.run ended
    t_result,       \* "" | "True" | "False" | the exception raised
    \* ---- ocr/shop_monitor.py: one call of monitor_shop_loop_once ----
    sh_champions,   \* the module's champions list: [champ, printable] each
    sh_names,       \* champ_names: the OCR text of each shop slot
    sh_pc,          \* "idle" | "import" | "import_error" | "load" |
                    \* "loaded" | "match" | "done"
    sh_matched,     \* the list matched
    sh_printed,     \* the slots whose line was printed, in order
    sh_raised       \* "" or the exception the call ended in

invVars == <<comps_file, comp_data, va_pc, inv_champs, inv_gold, inv_result>>

matchVars == <<m_champions, m_name, m_use_fuzzy, m_threshold, m_pc, m_result>>

geminiVars == <<g_max_retries, g_retry_delay, g_attempt, g_pc, g_history,
                g_waits, g_result>>

scrapeVars == <<s_max_retries, s_attempt, s_pc, s_history, s_waits, s_stage,
                s_files, s_result>>

monVars == <<mon_pc, mon_log, mon_slept>>

mainVars == <<main_pc, main_events, data_files, written, html_dir, threads,
              hotkeys, champs_path, champions_loaded>>

voiceVars == <<pv_key, pv_files, pv_assistant, pv_pc, pv_query, pv_manual,
               pv_vision, pv_state, pv_result>>

\* The parts of the first half of the module, and those of the second.
coreVars == <<invVars, matchVars, geminiVars, scrapeVars, monVars, mainVars>>

parseVars == <<p_champs_file, p_query, p_pc, p_state, p_result>>

cfgVars == <<c_env, c_file, c_settings, c_reads, c_last, c_returned>>

waitVars == <<w_args, w_timeout, w_elapsed, w_pc, w_log, w_result>>

speakVars == <<t_text, t_pc, t_ran, t_said, t_outcome, t_result>>

shopVars == <<sh_champions, sh_names, sh_pc, sh_matched, sh_printed, sh_raised>>

otherParts == <<voiceVars, parseVars, cfgVars, waitVars, speakVars, shopVars>>

vars == <<coreVars, otherParts>>

-----------------------------------------------------------------------------
(* Bounds of the model *)

MaxComps == 2       \* compositions in a file
MaxCompLen == 2     \* champions in a composition
MaxRoster == 2      \* champions in a roster
MaxChamps == 2      \* entries in the list given to match_champ
MaxRetries == 4     \* largest max_retries tried
MaxLog == 6         \* steps of the shop_monitor thread followed
MaxQueryLen == 3    \* tokens in a query given to parse_voice_input
MaxElapsed == 5     \* seconds of a wait_for_shop call followed
MaxSentences == 3   \* sentences in a text given to speak
MaxSlots == 2       \* shop slots read in one monitoring cycle

-----------------------------------------------------------------------------
(* Generic helpers *)

Range(s) == {s[i] : i \in 1..Len(s)}

SeqsUpTo(S, n) == UNION {[1..k -> S] : k \in 0..n}

\* python: x in list
InList(x, s) == \E i \in 1..Len(s) : s[i] = x

-----------------------------------------------------------------------------
(* comps_html/html_to_json.py: parse_all_comps *)

Names == {"Ahri", "Garen", "Zed"}

NameIndex(n) == CASE n = "Ahri" -> 1 [] n = "Garen" -> 2 [] OTHER -> 3

\* Champion lists of a composition page: each champion once, in page order.
CompLists ==
    {s \in SeqsUpTo(Names, MaxCompLen) :
        \A i, j \in 1..Len(s) : i < j => NameIndex(s[i]) < NameIndex(s[j])}

\* What BeautifulSoup finds in one comp_*.html: the h1 title (or None), the
\* non-empty unit names, and for each synergy div the alt of its img (None
\* when the div has no img or the img no alt) and the stripped text of its
\* label (None when the div has no label).
NoneVal == "None"

Synergy(alt, label) == [alt |-> alt, label |-> label]

SoupPages ==
    [h1 : {NoneVal, "Reroll Comp"},
     units : CompLists,
     synergies : {<<Synergy("Mage", "2"), Synergy("Sage", "x"),
                    Synergy(NoneVal, "2"), Synergy("Mage", "4"),
                    Synergy("Mage", "2"), Synergy("Sage", NoneVal)>>}]

\* extract_comp_name
extract_comp_name(soup) ==
    IF soup.h1 # NoneVal THEN soup.h1 ELSE "Unknown Comp"

\* extract_units
extract_units(soup) == soup.units

\* Line 19: count.isdigit(), on the label texts that occur.
IsDigitLabel(label) == label \in {"0", "2", "4"}

\* Line 20: int(count)
LabelInt(label) ==
    CASE label = "2" -> 2 [] label = "4" -> 4 [] OTHER -> 0

\* Lines 17-19: the div has an img and a label, the alt is not empty and
\* the label is a number.
CountedSynergy(syn) ==
    /\ syn.alt # NoneVal /\ syn.label # NoneVal
    /\ syn.alt # ""
    /\ IsDigitLabel(syn.label)

\* Line 20: traits[name] = max(traits[name], int(count)); a new name goes
\* to the end of the dict.
PutMax(traits, name, count) ==
    IF \E i \in 1..Len(traits) : traits[i].name = name
    THEN [i \in 1..Len(traits) |->
            IF traits[i].name = name /\ count > traits[i].count
            THEN [name |-> name, count |-> count]
            ELSE traits[i]]
    ELSE Append(traits, [name |-> name, count |-> count])

RECURSIVE TraitsOf(_, _)
TraitsOf(synergies, traits) ==
    IF synergies = <<>> THEN traits
    ELSE TraitsOf(Tail(synergies),
                  IF CountedSynergy(Head(synergies))
                  THEN PutMax(traits, Head(synergies).alt,
                              LabelInt(Head(synergies).label))
                  ELSE traits)

\* extract_traits (lines 12-21), then the list comprehension over its
\* items (lines 49-52): one {name, count} per trait name, in the order
\* the names first occur, with the largest count seen.
extract_traits(soup) == TraitsOf(soup.synergies, <<>>)

\* The record built for one page (html_to_json.py lines 46-53).
CompRecord(soup) ==
    [comp_name |-> extract_comp_name(soup),
     units |-> extract_units(soup),
     traits |-> extract_traits(soup)]

\* parse_all_comps: one record per comp_*.html, in sorted file order.
parse_all_comps(pages) == [i \in 1..Len(pages) |-> CompRecord(pages[i])]

-----------------------------------------------------------------------------
(* assistant/voice_assistant.py: handle_inventory_query *)

\* comp["champions"]: a KeyError when the record has no such field.
HasChampions(comp) == "champions" \in DOMAIN comp

\* A slip: shared assigned, not or-ed, so only the last roster champion counts.
SharedLastOnly(comp, champs) ==
    /\ champs # <<>>
    /\ InList(champs[Len(champs)], comp["champions"])

\* Lines 40-44: shared is set when some roster champion is in the list.
Shared(comp, champs) ==
    \E i \in 1..Len(champs) : InList(champs[i], comp["champions"])

\* Lines 37-48: usable accumulates the champions of every sharing comp.
RECURSIVE Usable(_, _, _)
Usable(comps, champs, k) ==
    IF k = 0 THEN {}
    ELSE LET rest == Usable(comps, champs, k - 1)
             comp == comps[k]
         IN  IF Shared(comp, champs)
             THEN rest \cup Range(comp["champions"])
             ELSE rest

\* Lines 50-53: the roster champions not in usable, in roster order.
RECURSIVE ToSell(_, _)
ToSell(champs, usable) ==
    IF champs = <<>> THEN <<>>
    ELSE LET rest == ToSell(Tail(champs), usable)
         IN  IF Head(champs) \notin usable
             THEN <<Head(champs)>> \o rest
             ELSE rest

\* Lines 55-64: the reply, as its three parts (opening, the names joined
\* by ", ", and the gold sentence).
Response(to_sell, gold) ==
    [head |-> IF Len(to_sell) = 0 THEN "all of those can fit" ELSE "sell:",
     sell |-> to_sell,
     tail |-> IF gold < 50 THEN "you have less than 50 gold"
              ELSE "good job saving at least 50 gold"]

NoResponse == [head |-> "", sell |-> <<>>, tail |-> ""]

\* The first comp["champions"] is evaluated inside the loop over champs, so
\* an empty roster reads no field at all.
RaisesKeyError(comps, champs) ==
    /\ champs # <<>>
    /\ \E k \in 1..Len(comps) : ~HasChampions(comps[k])

handle_inventory_query(comps, champs, gold) ==
    IF RaisesKeyError(comps, champs)
    THEN [raised |-> "KeyError", response |-> NoResponse]
    ELSE [raised |-> "",
          response |-> Response(ToSell(champs, Usable(comps, champs, Len(comps))),
                                gold)]

-----------------------------------------------------------------------------
(* ocr/matching.py: match_champ *)

\* A Python value that may or may not be a string: [t, s], with t = "str"
\* and s its characters, or t = "none" (None) or t = "int" (a number).
Str(chars) == [t |-> "str", s |-> chars]
PyNone == [t |-> "none", s |-> <<>>]
PyInt == [t |-> "int", s |-> <<>>]

IsStr(v) == v.t = "str"

\* str.lower, one character
LowerChar(c) ==
    CASE c = "A" -> "a" [] c = "B" -> "b" [] c = "F" -> "f"
      [] c = "J" -> "j" [] c = "M" -> "m" [] OTHER -> c

\* str.lower
Lower(chars) == [i \in 1..Len(chars) |-> LowerChar(chars[i])]

\* str.strip: leading and trailing whitespace removed
RECURSIVE LStrip(_)
LStrip(chars) ==
    IF chars # <<>> /\ Head(chars) = " " THEN LStrip(Tail(chars)) ELSE chars

RECURSIVE RStrip(_)
RStrip(chars) ==
    IF chars # <<>> /\ chars[Len(chars)] = " "
    THEN RStrip(SubSeq(chars, 1, Len(chars) - 1))
    ELSE chars

Strip(chars) == RStrip(LStrip(chars))

\* Line 68: name_clean = name.strip().lower()
NameClean(name) == Lower(Strip(name.s))

\* An entry of the champions list: a dict, with or without a "name" key, or
\* something that is not a dict.
DictEntry(v) == [dict |-> TRUE, has_name |-> TRUE, name |-> v]
NamelessDict == [dict |-> TRUE, has_name |-> FALSE, name |-> PyNone]
NotADict == [dict |-> FALSE, has_name |-> FALSE, name |-> PyNone]

\* Line 72: the entries the exact-match loop skips.
Skipped(champ) == ~champ.dict \/ ~champ.has_name

\* champ.get("name", "")
GetName(champ) == IF champ.has_name THEN champ.name ELSE Str(<<>>)

Returned(i) == [raised |-> FALSE, idx |-> i]
ReturnedNone == [raised |-> FALSE, idx |-> 0]
Raised == [raised |-> TRUE, idx |-> 0]

\* Lines 71-78: the exact-match loop from entry i on.  .lower() on a name
\* that is not a string raises AttributeError, outside any try block.
\* The value is the outcome, or idx = -1 when the loop ends without a match.
NoExact == [raised |-> FALSE, idx |-> -1]

RECURSIVE ExactLoop(_, _, _)
ExactLoop(champions, name_clean, i) ==
    IF i > Len(champions) THEN NoExact
    ELSE LET champ == champions[i]
         IN  IF Skipped(champ) THEN ExactLoop(champions, name_clean, i + 1)
             ELSE IF ~IsStr(GetName(champ)) THEN Raised
             ELSE IF Lower(GetName(champ).s) = name_clean THEN Returned(i)
             ELSE ExactLoop(champions, name_clean, i + 1)

\* rapidfuzz: length of the longest common subsequence, row by row:
\* prev[j + 1] is the length for the characters of a read so far and the
\* first j of b.
RECURSIVE LcsRow(_, _, _, _)
LcsRow(c, b, prev, cur) ==
    LET j == Len(cur)
    IN  IF j > Len(b) THEN cur
        ELSE LET v == IF c = b[j] THEN prev[j] + 1
                      ELSE IF prev[j + 1] >= cur[j] THEN prev[j + 1] ELSE cur[j]
             IN  LcsRow(c, b, prev, Append(cur, v))

RECURSIVE LcsRows(_, _, _)
LcsRows(a, b, rows) ==
    LET i == Len(rows)
    IN  IF i > Len(a) THEN rows[i][Len(b) + 1]
        ELSE LcsRows(a, b, Append(rows, LcsRow(a[i], b, rows[i], <<0>>)))

LCS(a, b) == LcsRows(a, b, <<[j \in 1..(Len(b) + 1) |-> 0]>>)

\* rapidfuzz fuzz.ratio: 100 * (1 - indel / (len1 + len2)), the indel
\* distance being len1 + len2 - 2 * LCS; kept as the fraction num / den.
Ratio(a, b) ==
    IF Len(a) + Len(b) = 0 THEN [num |-> 100, den |-> 1]
    ELSE [num |-> 200 * LCS(a, b), den |-> Len(a) + Len(b)]

\* score >= cutoff and score1 > score2 on fractions
ScoreAtLeast(sc, cutoff) == sc.num >= cutoff * sc.den
ScoreGreater(s1, s2) == s1.num * s2.den > s2.num * s1.den

\* Lines 83-86: the names of the dict entries that have one.
RECURSIVE ChampionNames(_)
ChampionNames(champions) ==
    IF champions = <<>> THEN <<>>
    ELSE LET rest == ChampionNames(Tail(champions))
         IN  IF Head(champions).dict /\ Head(champions).has_name
             THEN <<GetName(Head(champions))>> \o rest
             ELSE rest

\* The score held before any choice was scored, and the mark of a choice
\* that is None.
NoScore == [num |-> 0, den |-> 1]
NoneChoice == [num |-> -1, den |-> 1]

\* scorer=fuzz.ratio, on the query and each choice.
RECURSIVE ChoiceScores(_, _)
ChoiceScores(query, choices) ==
    IF choices = <<>> THEN <<>>
    ELSE <<IF IsStr(Head(choices)) THEN Ratio(query, Head(choices).s)
           ELSE NoneChoice>> \o ChoiceScores(query, Tail(choices))

\* rapidfuzz process.extractOne(query, choices, scorer=fuzz.ratio,
\* score_cutoff=cutoff), on the scores of the choices: the first choice of
\* the highest score among those scoring at least cutoff, as its position
\* in choices, or 0 for None.  Choices that are None are skipped.
RECURSIVE ExtractOne(_, _, _, _, _)
ExtractOne(scores, cutoff, i, best, top) ==
    IF i > Len(scores) THEN best
    ELSE IF scores[i] = NoneChoice
         THEN ExtractOne(scores, cutoff, i + 1, best, top)
    ELSE IF /\ ScoreAtLeast(scores[i], cutoff)
            /\ best = 0 \/ ScoreGreater(scores[i], top)
         THEN ExtractOne(scores, cutoff, i + 1, i, scores[i])
    ELSE ExtractOne(scores, cutoff, i + 1, best, top)

\* Lines 103-106: the first entry whose lower-cased name is the lower-cased
\* matched name.  champ.get on an entry that is not a dict raises inside the
\* try block, and line 108 catches it: the call then returns None.
RECURSIVE FuzzyLookup(_, _, _)
FuzzyLookup(champions, matched, i) ==
    IF i > Len(champions) THEN ReturnedNone
    ELSE LET champ == champions[i]
         IN  IF ~champ.dict THEN ReturnedNone
             ELSE IF ~IsStr(GetName(champ)) THEN ReturnedNone
             ELSE IF Lower(GetName(champ).s) = Lower(matched) THEN Returned(i)
             ELSE FuzzyLookup(champions, matched, i + 1)

\* Line 81
FuzzyEnabled(use_fuzzy, threshold) ==
    use_fuzzy /\ 0 <= threshold /\ threshold <= 100

\* Lines 80-112
FuzzyMatch(champions, name, use_fuzzy, threshold) ==
    IF ~FuzzyEnabled(use_fuzzy, threshold) THEN ReturnedNone
    ELSE LET champion_names == ChampionNames(champions)
             hit == ExtractOne(ChoiceScores(name.s, champion_names),
                              threshold, 1, 0, NoScore)
         IN  IF champion_names = <<>> THEN ReturnedNone
             ELSE IF hit = 0 THEN ReturnedNone
             ELSE FuzzyLookup(champions, champion_names[hit].s, 1)

\* Lines 43-112
match_champ(champions, name, use_fuzzy, threshold) ==
    IF ~IsStr(name) \/ name.s = <<>> THEN ReturnedNone
    ELSE IF champions = <<>> THEN ReturnedNone
    ELSE LET exact == ExactLoop(champions, NameClean(name), 1)
         IN  IF exact # NoExact THEN exact
             ELSE FuzzyMatch(champions, name, use_fuzzy, threshold)

-----------------------------------------------------------------------------
(* The discard query as a state machine *)

\* Records of the shape handle_inventory_query reads.
ChampionRecords == [name : {"Comp"}, champions : CompLists]

Rosters == SeqsUpTo(Names, MaxRoster)

Golds == {49, 50}

NoFile == [exists |-> FALSE, writer |-> "", data |-> <<>>]

\* The matcher before any call: the other parts hold these values.
MatchIdle ==
    /\ m_champions = <<>>
    /\ m_name = [t |-> "none", s |-> <<>>]
    /\ m_use_fuzzy = FALSE
    /\ m_threshold = 0
    /\ m_pc = "idle"
    /\ m_result = [raised |-> FALSE, idx |-> 0]

GeminiIdle ==
    /\ g_max_retries = 0
    /\ g_retry_delay = 0
    /\ g_attempt = 0
    /\ g_pc = "idle"
    /\ g_history = <<>>
    /\ g_waits = <<>>
    /\ g_result = [kind |-> "", msg |-> ""]

NoPaths == [champs |-> "None", traits |-> "None"]

ScrapeIdle ==
    /\ s_max_retries = 0
    /\ s_attempt = 0
    /\ s_pc = "idle"
    /\ s_history = <<>>
    /\ s_waits = <<>>
    /\ s_stage = [parsed |-> "", saved |-> ""]
    /\ s_files = {}
    /\ s_result = NoPaths

MonIdle ==
    /\ mon_pc = "idle"
    /\ mon_log = <<>>
    /\ mon_slept = 0

MainIdle ==
    /\ main_pc = "idle"
    /\ main_events = <<>>
    /\ data_files = {}
    /\ written = {}
    /\ html_dir = FALSE
    /\ threads = 0
    /\ hotkeys = FALSE
    /\ champs_path = "None"
    /\ champions_loaded = FALSE

\* Optional[int] and Optional[str] fields: None, or a value.
Unset == [set |-> FALSE, v |-> 0]
Some(x) == [set |-> TRUE, v |-> x]
UnsetStr == [set |-> FALSE, v |-> ""]

\* A GameStateInput (manual_input_handler.py lines 10-28); none marks the
\* None that stands for "no state".
GameStateInput ==
    [none |-> FALSE, gold |-> Unset, level |-> Unset, health |-> Unset,
     round_stage |-> UnsetStr, board_champions |-> <<>>,
     bench_champions |-> <<>>, shop_champions |-> <<>>,
     target_comp |-> UnsetStr]

NoState == [GameStateInput EXCEPT !.none = TRUE]

\* The stats dict of get_game_stats_only; a key not in the dict is unset.
\* none marks vision_data = None.
EmptyStats ==
    [none |-> FALSE, gold |-> Unset, level |-> Unset, health |-> Unset,
     round_stage |-> UnsetStr]

NoVision == [EmptyStats EXCEPT !.none = TRUE]

\* The assistant before any call of process_voice_query.
VoiceIdle ==
    /\ pv_key = FALSE
    /\ pv_files = [champions |-> "missing", comps |-> "missing"]
    /\ pv_assistant = FALSE
    /\ pv_pc = "idle"
    /\ pv_query = [t |-> "none", s |-> <<>>]
    /\ pv_manual = NoState
    /\ pv_vision = NoVision
    /\ pv_state = NoState
    /\ pv_result = [raised |-> "", value |-> ""]

\* The input handler before any call of parse_voice_input.
ParseIdle ==
    /\ p_champs_file = [kind |-> "missing", entries |-> <<>>]
    /\ p_query = <<>>
    /\ p_pc = "idle"
    /\ p_state = NoState
    /\ p_result = NoState

\* The fields of AppSettings the model follows, with their defaults
\* (settings.py lines 14, 24-27, 51, 60); floats are in tenths.
DefaultSettings ==
    [api_key |-> UnsetStr, level |-> "INFO", data_dir |-> "data",
     confidence_threshold |-> 8, timeout |-> 300,
     model |-> "gemini-2.0-flash"]

\* A key of the config file: not there, or there with a value.
AbsentStr == [has |-> FALSE, val |-> ""]
AbsentNum == [has |-> FALSE, val |-> 0]
AbsentKey == [has |-> FALSE, val |-> UnsetStr]
Present(x) == [has |-> TRUE, val |-> x]

EmptyConfig ==
    [api_key |-> AbsentKey, level |-> AbsentStr, data_dir |-> AbsentStr,
     confidence_threshold |-> AbsentNum, timeout |-> AbsentNum,
     model |-> AbsentStr]

NoConfigFile == [kind |-> "missing", writer |-> "", data |-> EmptyConfig]

NoEnv ==
    [GEMINI_API_KEY |-> UnsetStr, LOG_LEVEL |-> UnsetStr,
     DATA_DIR |-> UnsetStr, OCR_CONFIDENCE |-> UnsetStr,
     GEMINI_TIMEOUT |-> UnsetStr]

\* The configuration manager before it is made.
ConfigIdle ==
    /\ c_env = NoEnv
    /\ c_file = NoConfigFile
    /\ c_settings = [loaded |-> FALSE, s |-> DefaultSettings]
    /\ c_reads = 0
    /\ c_last = "idle"
    /\ c_returned = DefaultSettings

\* wait_for_shop before it is called.
WaitIdle ==
    /\ w_args = "ok"
    /\ w_timeout = Unset
    /\ w_elapsed = 0
    /\ w_pc = "idle"
    /\ w_log = <<>>
    /\ w_result = ""

\* speak before it is called.
SpeakIdle ==
    /\ t_text = [t |-> "none", blank |-> FALSE, sentences |-> <<>>]
    /\ t_pc = "idle"
    /\ t_ran = FALSE
    /\ t_said = [len |-> 0, ellipsis |-> FALSE]
    /\ t_outcome = ""
    /\ t_result = ""

ShopIdle ==
    /\ sh_champions = <<>>
    /\ sh_names = <<>>
    /\ sh_pc = "idle"
    /\ sh_matched = <<>>
    /\ sh_printed = <<>>
    /\ sh_raised = ""

OtherPartsIdle ==
    /\ VoiceIdle
    /\ ParseIdle
    /\ ConfigIdle
    /\ WaitIdle
    /\ SpeakIdle
    /\ ShopIdle

InitInv ==
    /\ OtherPartsIdle
    /\ MatchIdle
    /\ GeminiIdle
    /\ ScrapeIdle
    /\ MonIdle
    /\ MainIdle
    /\ comps_file = NoFile
    /\ comp_data = <<>>
    /\ va_pc = "start"
    /\ inv_champs = <<>>
    /\ inv_gold = 0
    /\ inv_result = [raised |-> "", response |-> NoResponse]

\* A data/comps_output.json that holds records with champion lists, the
\* shape handle_inventory_query reads, is put in place.
PlaceChampionsFile ==
    /\ va_pc = "start"
    /\ ~comps_file.exists
    /\ \E d \in SeqsUpTo(ChampionRecords, MaxComps) :
          comps_file' = [exists |-> TRUE, writer |-> "other", data |-> d]
    /\ UNCHANGED <<comp_data, va_pc, inv_champs, inv_gold, inv_result>>
    /\ UNCHANGED <<matchVars, geminiVars, scrapeVars, monVars, mainVars, otherParts>>

\* main step 2: parse_all_comps writes data/comps_output.json, over
\* whatever file is there; main calls it once per run.
ParseAllComps ==
    /\ va_pc = "start"
    /\ \E pages \in SeqsUpTo(SoupPages, MaxComps) :
          comps_file' = [exists |-> TRUE, writer |-> "parse_all_comps",
                         data |-> parse_all_comps(pages)]
    /\ va_pc' = "parsed"
    /\ UNCHANGED <<comp_data, inv_champs, inv_gold, inv_result>>
    /\ UNCHANGED <<matchVars, geminiVars, scrapeVars, monVars, mainVars, otherParts>>

\* voice_assistant.py lines 6-7: the module loads the file when imported.
ImportVoiceAssistant ==
    /\ va_pc \in {"start", "parsed"}
    /\ IF comps_file.exists
       THEN /\ comp_data' = comps_file.data
            /\ va_pc' = "loaded"
       ELSE /\ va_pc' = "import_failed"
            /\ UNCHANGED comp_data
    /\ UNCHANGED <<comps_file, inv_champs, inv_gold, inv_result>>
    /\ UNCHANGED <<matchVars, geminiVars, scrapeVars, monVars, mainVars, otherParts>>

\* One call of handle_inventory_query(champs, gold).
InventoryQuery ==
    /\ va_pc = "loaded"
    /\ \E champs \in Rosters, gold \in Golds :
          /\ inv_champs' = champs
          /\ inv_gold' = gold
          /\ inv_result' = handle_inventory_query(comp_data, champs, gold)
    /\ va_pc' = "done"
    /\ UNCHANGED <<comps_file, comp_data>>
    /\ UNCHANGED <<matchVars, geminiVars, scrapeVars, monVars, mainVars, otherParts>>

NextInv ==
    \/ PlaceChampionsFile
    \/ ParseAllComps
    \/ ImportVoiceAssistant
    \/ InventoryQuery

SpecInv == InitInv /\ [][NextInv]_vars

-----------------------------------------------------------------------------
(* Claims about the discard query *)

WellFormed(comps) == \A k \in 1..Len(comps) : HasChampions(comps[k])

\* c is in the champion list of a composition that shares a champion with
\* the roster.
InSharingComp(c, comps, roster) ==
    \E k \in 1..Len(comps) :
        /\ InList(c, comps[k]["champions"])
        /\ Range(comps[k]["champions"]) \cap Range(roster) # {}

ExpectedSell(comps, roster) ==
    LET Sold(c) == ~InSharingComp(c, comps, roster)
    IN  SelectSeq(roster, Sold)

\* C1: over compositions that carry champion lists, the sell list of
\* handle_inventory_query is exactly the roster champions that are in no
\* composition sharing a champion with the roster, in roster order, and the
\* reply is the keep-all sentence exactly when that list is empty.
C1_SellIffInNoSharingComp ==
    (va_pc = "done" /\ WellFormed(comp_data)) =>
        /\ inv_result.raised = ""
        /\ inv_result.response.sell = ExpectedSell(comp_data, inv_champs)
        /\ (inv_result.response.head = "all of those can fit")
              <=> (ExpectedSell(comp_data, inv_champs) = <<>>)

\* A query over two compositions in which one roster champion is sold and
\* another is kept.
C1_Witness ==
    /\ va_pc = "done"
    /\ WellFormed(comp_data)
    /\ Len(comp_data) = 2
    /\ Len(inv_champs) = 2
    /\ Len(inv_result.response.sell) = 1
    /\ inv_result.response.sell[1] = inv_champs[1]

\* C2: a discard query over the file parse_all_comps generated completes
\* without a missing-field error.
C2_GeneratedFileQueryCompletes ==
    (va_pc = "done" /\ comps_file.writer = "parse_all_comps") =>
        inv_result.raised = ""

-----------------------------------------------------------------------------
(* One call of match_champ as a state machine *)

InvIdle ==
    /\ comps_file = NoFile
    /\ comp_data = <<>>
    /\ va_pc = "idle"
    /\ inv_champs = <<>>
    /\ inv_gold = 0
    /\ inv_result = [raised |-> "", response |-> NoResponse]

EntryPool ==
    {DictEntry(Str(<<"a", "b">>)), DictEntry(Str(<<"A", "b">>)),
     DictEntry(Str(<<"b", "a">>)), DictEntry(Str(<<>>)),
     DictEntry(PyNone), NamelessDict, NotADict}

QueryPool ==
    {Str(<<"a", "b">>), Str(<<" ", "A", "b", " ">>), Str(<<"a", "b", "b">>),
     Str(<<>>), Str(<<" ">>), PyNone, PyInt}

Thresholds == {-1, 0, 80, 100, 101}

InitMatch ==
    /\ OtherPartsIdle
    /\ InvIdle
    /\ GeminiIdle
    /\ ScrapeIdle
    /\ MonIdle
    /\ MainIdle
    /\ m_champions \in SeqsUpTo(EntryPool, MaxChamps)
    /\ m_name \in QueryPool
    /\ m_use_fuzzy \in BOOLEAN
    /\ m_threshold \in Thresholds
    /\ m_pc = "call"
    /\ m_result = ReturnedNone

MatchChamp ==
    /\ m_pc = "call"
    /\ m_result' = match_champ(m_champions, m_name, m_use_fuzzy, m_threshold)
    /\ m_pc' = "returned"
    /\ UNCHANGED <<m_champions, m_name, m_use_fuzzy, m_threshold>>
    /\ UNCHANGED <<invVars, geminiVars, scrapeVars, monVars, mainVars, otherParts>>

NextMatch == MatchChamp

SpecMatch == InitMatch /\ [][NextMatch]_vars

-----------------------------------------------------------------------------
(* Claims about match_champ *)

\* Entry i's name equals the query once whitespace is trimmed and case is
\* folded.
ExactAt(i) ==
    /\ IsStr(m_name)
    /\ m_champions[i].dict /\ m_champions[i].has_name
    /\ IsStr(m_champions[i].name)
    /\ Lower(m_champions[i].name.s) = Lower(Strip(m_name.s))

FirstExact(i) == ExactAt(i) /\ \A j \in 1..(i - 1) : ~ExactAt(j)

SomeExact == \E i \in 1..Len(m_champions) : ExactAt(i)

\* C3: for a query that is a non-empty string (the empty query is C4's
\* "no exact match" case), whenever some entry's name equals the trimmed,
\* lower-cased query, match_champ returns the first such entry, whatever
\* use_fuzzy and threshold are.
C3_ExactMatchWins ==
    (m_pc = "returned" /\ m_name.s # <<>> /\ SomeExact) =>
        /\ ~m_result.raised
        /\ m_result.idx \in 1..Len(m_champions)
        /\ FirstExact(m_result.idx)

\* The similarity of the query to a name, as fuzz.ratio scores it.
ScoreOf(i) == Ratio(m_name.s, m_champions[i].name.s)

\* C4: a non-exact match is returned only when use_fuzzy is true, the
\* threshold is within 0..100 and a name that folds to the returned entry's
\* name scores at least the threshold; every other call without an exact
\* match returns None; and no call raises.
C4_FuzzyOnlyAboveThresholdNeverRaises ==
    m_pc = "returned" =>
        /\ ~m_result.raised
        /\ (~SomeExact /\ m_result.idx # 0) =>
              /\ m_use_fuzzy
              /\ 0 <= m_threshold /\ m_threshold <= 100
              /\ \E i \in 1..Len(m_champions) :
                    /\ m_champions[i].dict /\ m_champions[i].has_name
                    /\ IsStr(m_champions[i].name)
                    /\ ScoreAtLeast(ScoreOf(i), m_threshold)
                    /\ Lower(m_champions[i].name.s)
                         = Lower(GetName(m_champions[m_result.idx]).s)
        /\ (~SomeExact /\ ~(m_use_fuzzy /\ 0 <= m_threshold /\ m_threshold <= 100))
              => m_result.idx = 0
        /\ (~IsStr(m_name) \/ m_name.s = <<>> \/ m_champions = <<>>)
              => m_result.idx = 0

-----------------------------------------------------------------------------
(* assistant/gemini_service.py: GeminiClient._make_request *)

\* A slip: range(max_retries + 1), one attempt too many.
AttemptsOneMore(max_retries) == IF max_retries + 1 > 0 THEN max_retries + 1 ELSE 0

\* Line 55: len(range(max_retries))
Attempts(max_retries) == IF max_retries > 0 THEN max_retries ELSE 0

\* A slip: the wait divided, not multiplied, by the attempt number.
WaitShrinking(delay, attempt, factor) == (delay * factor) \div (attempt + 1)

\* Lines 68, 76, 83: retry_delay * (attempt + 1), doubled after a 429.
Wait(delay, attempt, factor) == delay * (attempt + 1) * factor

\* A slip: the last retry is given up.
MoreAttemptsOneLess(attempt, max_retries) == attempt < max_retries - 2

\* Lines 67, 75, 82
MoreAttempts(attempt, max_retries) == attempt < max_retries - 1

GeminiError(msg) == [kind |-> "GeminiAPIError", msg |-> msg]

Delays == {1, 2}

InitGemini ==
    /\ OtherPartsIdle
    /\ InvIdle
    /\ MatchIdle
    /\ ScrapeIdle
    /\ MonIdle
    /\ MainIdle
    /\ g_max_retries \in 0..MaxRetries
    /\ g_retry_delay \in Delays
    /\ g_attempt = 0
    /\ g_pc = "loop"
    /\ g_history = <<>>
    /\ g_waits = <<>>
    /\ g_result = [kind |-> "", msg |-> ""]

InLoop == g_pc = "loop" /\ g_attempt < Attempts(g_max_retries)

\* A failed POST that is retried while attempts remain: the sleep and the
\* continue, or the GeminiAPIError of the last attempt.
RetryOrFail(what, factor, msg) ==
    /\ g_history' = Append(g_history, what)
    /\ IF MoreAttempts(g_attempt, g_max_retries)
       THEN /\ g_waits' = Append(g_waits, Wait(g_retry_delay, g_attempt, factor))
            /\ g_attempt' = g_attempt + 1
            /\ UNCHANGED <<g_pc, g_result>>
       ELSE /\ g_result' = GeminiError(msg)
            /\ g_pc' = "done"
            /\ UNCHANGED <<g_waits, g_attempt>>
    /\ UNCHANGED <<g_max_retries, g_retry_delay>>
    /\ UNCHANGED <<invVars, matchVars, scrapeVars, monVars, mainVars, otherParts>>

\* Lines 57-63: the POST succeeds and its JSON is returned.
PostSucceeds ==
    /\ InLoop
    /\ g_history' = Append(g_history, "ok")
    /\ g_result' = [kind |-> "json", msg |-> ""]
    /\ g_pc' = "done"
    /\ UNCHANGED <<g_max_retries, g_retry_delay, g_attempt, g_waits>>
    /\ UNCHANGED <<invVars, matchVars, scrapeVars, monVars, mainVars, otherParts>>

\* Lines 65-70: requests.exceptions.Timeout
PostTimesOut ==
    /\ InLoop
    /\ RetryOrFail("timeout", 1, "API request timed out after all retries")

\* Lines 72-78: HTTPError with status 429
PostRateLimited ==
    /\ InLoop
    /\ RetryOrFail("429", 2, "HTTP error")

\* Lines 72-78: HTTPError with any other status
PostHTTPError ==
    /\ InLoop
    /\ g_history' = Append(g_history, "http_error")
    /\ g_result' = GeminiError("HTTP error")
    /\ g_pc' = "done"
    /\ UNCHANGED <<g_max_retries, g_retry_delay, g_attempt, g_waits>>
    /\ UNCHANGED <<invVars, matchVars, scrapeVars, monVars, mainVars, otherParts>>

\* Lines 80-85: any other RequestException (a connection error, or a body
\* that is not JSON, which requests raises as a RequestException)
PostRequestError ==
    /\ InLoop
    /\ RetryOrFail("request_error", 1, "Request failed")

\* Line 87: the loop ran out without returning or raising, which happens
\* only when it never ran.
LoopExhausted ==
    /\ g_pc = "loop"
    /\ g_attempt >= Attempts(g_max_retries)
    /\ g_result' = GeminiError("Failed after all retry attempts")
    /\ g_pc' = "done"
    /\ UNCHANGED <<g_max_retries, g_retry_delay, g_attempt, g_history, g_waits>>
    /\ UNCHANGED <<invVars, matchVars, scrapeVars, monVars, mainVars, otherParts>>

NextGemini ==
    \/ PostSucceeds
    \/ PostTimesOut
    \/ PostRateLimited
    \/ PostHTTPError
    \/ PostRequestError
    \/ LoopExhausted

\* The call is sequential code: each POST ends within config.timeout and each
\* sleep is finite, so a step that can be taken is taken.
SpecGemini == InitGemini /\ [][NextGemini]_vars /\ WF_vars(NextGemini)

-----------------------------------------------------------------------------
(* Claims about _make_request *)

Retryable(what) == what \in {"timeout", "429", "request_error"}

Failed(what) == what # "ok"

C5_Bounded ==
    /\ Len(g_history) <= g_max_retries
    /\ g_pc = "done" =>
          /\ g_result.kind \in {"json", "GeminiAPIError"}
          /\ g_result.kind = "json" =>
                /\ g_history # <<>>
                /\ g_history[Len(g_history)] = "ok"
                /\ \A i \in 1..(Len(g_history) - 1) : Failed(g_history[i])
          /\ g_result.kind = "GeminiAPIError" =>
                /\ \A i \in 1..Len(g_history) : Failed(g_history[i])
                /\ \/ Len(g_history) = g_max_retries
                   \/ /\ g_history # <<>>
                      /\ ~Retryable(g_history[Len(g_history)])
          /\ g_max_retries = 0 =>
                (g_result.kind = "GeminiAPIError" /\ g_history = <<>>)

\* C5: a call sends at most max_retries POSTs and always ends: with the JSON
\* of the first successful attempt, or with GeminiAPIError after max_retries
\* failed attempts or after a non-retryable failure; max_retries = 0 sends
\* nothing and raises GeminiAPIError.
C5_AtMostMaxRetriesThenEnds == []C5_Bounded /\ <>(g_pc = "done")

\* Three failed POSTs, then a successful fourth and last one.
C5_Witness ==
    /\ g_pc = "done"
    /\ g_max_retries = 4
    /\ Len(g_history) = 4
    /\ g_result.kind = "json"

\* C6 as stated: the wait before each retry is never shorter than the wait
\* before the previous retry.
C6_WaitsNeverShrink ==
    \A i \in 1..(Len(g_waits) - 1) : g_waits[i + 1] >= g_waits[i]

\* C6, amended: the wait before a retry is never shorter than the wait
\* before the previous retry, unless the previous failure was a rate limit
\* (whose wait is doubled) and this one is not.
C6_WaitsNeverShrinkWithinClass ==
    \A i \in 1..(Len(g_waits) - 1) :
        ~(g_history[i] = "429" /\ g_history[i + 1] # "429")
            => g_waits[i + 1] >= g_waits[i]

\* A timeout, then two rate limits: three waits, each longer than the last.
C6_Witness ==
    /\ Len(g_waits) = 3
    /\ g_history[1] = "timeout"
    /\ g_history[2] = "429"
    /\ g_history[3] = "429"
    /\ g_waits[1] < g_waits[2]
    /\ g_waits[2] < g_waits[3]

\* The POST that this step sends ends as `what`.
Posts(what) == g_history' = Append(g_history, what)

\* A retryable failure with attempts left: the sleep, then the next POST.
C18_Retried ==
    \A what \in {"timeout", "429", "request_error"} :
        (Posts(what) /\ g_attempt + 1 < g_max_retries) =>
            /\ g_pc' = "loop"
            /\ g_attempt' = g_attempt + 1
            /\ Len(g_waits') = Len(g_waits) + 1
            /\ g_result' = g_result

\* Any other HTTP error status: GeminiAPIError at once, without a sleep.
C18_FailsAtOnce ==
    Posts("http_error") =>
        /\ g_pc' = "done"
        /\ g_result'.kind = "GeminiAPIError"
        /\ g_waits' = g_waits

\* Nothing is sent once the call has ended.
C18_NoFurtherRequest ==
    g_pc = "done" => (g_history' = g_history /\ g_waits' = g_waits)

\* C18: a timeout, a connection error and an HTTP 429 are retried while
\* attempts remain; any other HTTP error status ends the call with
\* GeminiAPIError after that one attempt, with no wait and no further
\* request.
C18_RetryPolicy ==
    /\ [][C18_Retried]_vars
    /\ [][C18_FailsAtOnce]_vars
    /\ [][C18_NoFurtherRequest]_vars
    /\ [](\A i \in 1..(Len(g_history) - 1) : g_history[i] # "http_error")

\* A timeout was retried after its wait, and the second POST came back with
\* an HTTP error that is no rate limit: the call ended with two attempts
\* still unused.
C18_Witness ==
    /\ g_pc = "done"
    /\ g_max_retries = 4
    /\ g_history = <<"timeout", "http_error">>
    /\ Len(g_waits) = 1
    /\ g_result.kind = "GeminiAPIError"

-----------------------------------------------------------------------------
(* scraper.py: scrape_to_json *)

ChampionsJson == "data/champions.json"
TraitsJson == "data/traits.json"

BothPaths == [champs |-> ChampionsJson, traits |-> TraitsJson]

\* A slip: a linear wait, 2 * attempt.
BackoffLinear(attempt) == 2 * attempt

\* Lines 188, 196, 203: time.sleep(2 ** attempt)
Backoff(attempt) == 2 ^ attempt

InitScrape ==
    /\ OtherPartsIdle
    /\ InvIdle
    /\ MatchIdle
    /\ GeminiIdle
    /\ MonIdle
    /\ MainIdle
    /\ s_max_retries \in 0..MaxRetries
    /\ s_attempt = 0
    /\ s_pc = "fetch"
    /\ s_history = <<>>
    /\ s_waits = <<>>
    /\ s_stage = [parsed |-> "", saved |-> ""]
    /\ s_files = {}
    /\ s_result = NoPaths

InFetch == s_pc = "fetch" /\ s_attempt < Attempts(s_max_retries)

ScrapeOthers == UNCHANGED <<invVars, matchVars, geminiVars, monVars, mainVars, otherParts>>

\* Lines 179-183: the GET succeeds and the loop is left.
GetSucceeds ==
    /\ InFetch
    /\ s_history' = Append(s_history, "ok")
    /\ s_pc' = "parse"
    /\ UNCHANGED <<s_max_retries, s_attempt, s_waits, s_stage, s_files, s_result>>
    /\ ScrapeOthers

\* The three handlers share one shape: sleep and continue while attempts
\* remain, else return (None, None).
GetFails(what) ==
    /\ InFetch
    /\ s_history' = Append(s_history, what)
    /\ IF MoreAttempts(s_attempt, s_max_retries)
       THEN /\ s_waits' = Append(s_waits, Backoff(s_attempt))
            /\ s_attempt' = s_attempt + 1
            /\ UNCHANGED <<s_pc, s_result>>
       ELSE /\ s_result' = NoPaths
            /\ s_pc' = "done"
            /\ UNCHANGED <<s_waits, s_attempt>>
    /\ UNCHANGED <<s_max_retries, s_stage, s_files>>
    /\ ScrapeOthers

\* Lines 185-191
GetTimesOut == GetFails("timeout")

\* Lines 193-198
GetHTTPError == GetFails("http_error")

\* Lines 200-205
GetRequestError == GetFails("request_error")

\* The loop body never ran (max_retries <= 0): response is unbound at line
\* 208, and the except of line 242 turns the NameError into (None, None).
FetchLoopEmpty ==
    /\ s_pc = "fetch"
    /\ s_attempt >= Attempts(s_max_retries)
    /\ s_result' = NoPaths
    /\ s_pc' = "done"
    /\ UNCHANGED <<s_max_retries, s_attempt, s_history, s_waits, s_stage, s_files>>
    /\ ScrapeOthers

\* Lines 208-212: parse_page finds no champion.
ParseFindsNone ==
    /\ s_pc = "parse"
    /\ s_stage' = [s_stage EXCEPT !.parsed = "none"]
    /\ s_result' = NoPaths
    /\ s_pc' = "done"
    /\ UNCHANGED <<s_max_retries, s_attempt, s_history, s_waits, s_files>>
    /\ ScrapeOthers

\* Line 208: parse_page finds champions.
ParseFindsChampions ==
    /\ s_pc = "parse"
    /\ s_stage' = [s_stage EXCEPT !.parsed = "some"]
    /\ s_pc' = "save"
    /\ UNCHANGED <<s_max_retries, s_attempt, s_history, s_waits, s_files, s_result>>
    /\ ScrapeOthers

\* What a failed save leaves behind: nothing (mkdir or the first open
\* failed), champions.json (its dump or the second open failed), or both
\* files (the second dump failed).
FailedSaveLeaves == {{}, {ChampionsJson}, {ChampionsJson, TraitsJson}}

\* Lines 214-236 raise, lines 242-244 return (None, None).
SaveFails ==
    /\ s_pc = "save"
    /\ \E left \in FailedSaveLeaves : s_files' = left
    /\ s_stage' = [s_stage EXCEPT !.saved = "failed"]
    /\ s_result' = NoPaths
    /\ s_pc' = "done"
    /\ UNCHANGED <<s_max_retries, s_attempt, s_history, s_waits>>
    /\ ScrapeOthers

\* Lines 214-240: both files written, both paths returned.
SaveSucceeds ==
    /\ s_pc = "save"
    /\ s_files' = {ChampionsJson, TraitsJson}
    /\ s_stage' = [s_stage EXCEPT !.saved = "ok"]
    /\ s_result' = BothPaths
    /\ s_pc' = "done"
    /\ UNCHANGED <<s_max_retries, s_attempt, s_history, s_waits>>
    /\ ScrapeOthers

NextScrape ==
    \/ GetSucceeds
    \/ GetTimesOut
    \/ GetHTTPError
    \/ GetRequestError
    \/ FetchLoopEmpty
    \/ ParseFindsNone
    \/ ParseFindsChampions
    \/ SaveFails
    \/ SaveSucceeds

SpecScrape == InitScrape /\ [][NextScrape]_vars

-----------------------------------------------------------------------------
(* Claims about scrape_to_json *)

AllGetsFailed == \A i \in 1..Len(s_history) : s_history[i] # "ok"

\* C7: at most max_retries GETs; the wait after the failed attempt number
\* a (from 0) is 2**a seconds, one wait between each two consecutive
\* attempts; the value returned is both paths or (None, None), and it is
\* (None, None) whenever every attempt failed, no champion was parsed or
\* saving failed.
C7_BoundedGetsBothPathsOrNone ==
    /\ Len(s_history) <= s_max_retries
    /\ \A i \in 1..Len(s_waits) : s_waits[i] = 2 ^ (i - 1)
    /\ s_history # <<>> => Len(s_waits) \in {Len(s_history) - 1, Len(s_history)}
    /\ s_pc \in {"parse", "save", "done"} /\ s_history # <<>>
          => Len(s_waits) = Len(s_history) - 1
    /\ s_pc = "done" =>
          /\ s_result \in {BothPaths, NoPaths}
          /\ (AllGetsFailed \/ s_stage.parsed = "none" \/ s_stage.saved = "failed")
                => s_result = NoPaths
          /\ s_result = BothPaths => s_files = {ChampionsJson, TraitsJson}

\* Two failed GETs with their waits of 1 and 2 seconds, a third that
\* succeeds, and both files saved.
C7_Witness ==
    /\ s_pc = "done"
    /\ s_max_retries = 3
    /\ Len(s_history) = 3
    /\ s_waits = <<1, 2>>
    /\ s_result = BothPaths

-----------------------------------------------------------------------------
(* main.py: shop_monitor, the polling thread *)

\* ocr/shop_monitor.py line 9: def monitor_shop_loop_once() has no parameter;
\* main.py line 203 passes one argument.
MonitorParams == 0
MonitorArgs == 1

\* How the call monitor_shop_loop_once(champions) can end: a call with the
\* wrong number of arguments is rejected with TypeError before the body runs.
CycleOutcomes ==
    IF MonitorArgs = MonitorParams
    THEN {"cycle_ok", "cycle_error"}
    ELSE {"cycle_type_error"}

CycleFailed(ev) == ev \in {"cycle_error", "cycle_type_error"}

\* A slip: no inner try, so the outer handler takes the exception and the
\* thread goes back to wait_for_shop.
AfterCycleOuterHandler == "wait"

\* Lines 200-209: after the inner handler and the sleep(0.1) the while
\* condition is evaluated again.
AfterCycle == "visible"

\* A slip: the outer handler placed inside the episode, so that the thread
\* goes on checking the shop after a detection error.
AfterDetectionErrorInEpisode == "visible"

\* Lines 211-214, then line 196: the outer handler sleeps one second and the
\* while True loop calls wait_for_shop again.
AfterDetectionError == "wait"

ShortSleep == 1     \* time.sleep(0.1), in tenths of a second
LongSleep == 10     \* time.sleep(1)

InitMonitor ==
    /\ OtherPartsIdle
    /\ InvIdle
    /\ MatchIdle
    /\ GeminiIdle
    /\ ScrapeIdle
    /\ MainIdle
    /\ mon_pc = "wait"
    /\ mon_log = <<>>
    /\ mon_slept = 0

MonOthers == UNCHANGED <<invVars, matchVars, geminiVars, scrapeVars, mainVars, otherParts>>

Following == Len(mon_log) < MaxLog

\* Line 198: wait_for_shop() returns True (with the default timeout of None
\* it never returns False).
WaitForShopReturns ==
    /\ Following
    /\ mon_pc = "wait"
    /\ mon_log' = Append(mon_log, "wait_true")
    /\ mon_pc' = "visible"
    /\ UNCHANGED mon_slept
    /\ MonOthers

\* Line 198: wait_for_shop() raises (the reference image is missing).
WaitForShopRaises ==
    /\ Following
    /\ mon_pc = "wait"
    /\ mon_log' = Append(mon_log, "wait_raised")
    /\ mon_slept' = LongSleep
    /\ mon_pc' = AfterDetectionError
    /\ MonOthers

\* Line 200: shop_still_visible() returns True.
ShopVisible ==
    /\ Following
    /\ mon_pc = "visible"
    /\ mon_log' = Append(mon_log, "visible_true")
    /\ mon_pc' = "cycle"
    /\ UNCHANGED mon_slept
    /\ MonOthers

\* Lines 200, 210: shop_still_visible() returns False, the while loop ends.
ShopGone ==
    /\ Following
    /\ mon_pc = "visible"
    /\ mon_log' = Append(mon_log, "visible_false")
    /\ mon_pc' = "wait"
    /\ UNCHANGED mon_slept
    /\ MonOthers

\* Line 200: shop_still_visible() raises (Path.resolve is outside its try).
ShopVisibleRaises ==
    /\ Following
    /\ mon_pc = "visible"
    /\ mon_log' = Append(mon_log, "visible_raised")
    /\ mon_slept' = LongSleep
    /\ mon_pc' = AfterDetectionError
    /\ MonOthers

\* Lines 201-209: one monitoring cycle, its handler and the sleep(0.1).
MonitorCycle ==
    /\ Following
    /\ mon_pc = "cycle"
    /\ \E ev \in CycleOutcomes : mon_log' = Append(mon_log, ev)
    /\ mon_slept' = ShortSleep
    /\ mon_pc' = AfterCycle
    /\ MonOthers

NextMonitor ==
    \/ WaitForShopReturns
    \/ WaitForShopRaises
    \/ ShopVisible
    \/ ShopGone
    \/ ShopVisibleRaises
    \/ MonitorCycle

SpecMonitor == InitMonitor /\ [][NextMonitor]_vars

-----------------------------------------------------------------------------
(* Claims about shop_monitor *)

Last(log) == log[Len(log)]

Logged(ev) == mon_log' = Append(mon_log, ev)

\* C8: no exception of a monitoring cycle or of shop detection ends the
\* thread: after an exception in monitor_shop_loop_once the loop goes on to
\* the shop_still_visible check, and after an exception from wait_for_shop
\* or shop_still_visible it pauses and calls wait_for_shop again.
C8_ExceptionsNeverEndThePolling ==
    /\ [][/\ (\E ev \in {"cycle_error", "cycle_type_error"} : Logged(ev))
               => mon_pc' = "visible"
          /\ (Logged("wait_raised") \/ Logged("visible_raised"))
               => (mon_pc' = "wait" /\ mon_slept' > 0)]_vars
    /\ [](mon_pc \in {"wait", "visible", "cycle"})

\* The thread has survived an exception of each kind: wait_for_shop raised,
\* later a cycle raised, and then shop_still_visible raised.
C8_Witness ==
    /\ Len(mon_log) = 5
    /\ mon_log[1] = "wait_raised"
    /\ CycleFailed(mon_log[4])
    /\ mon_log[5] = "visible_raised"
    /\ mon_pc = "wait"

\* The call monitor_shop_loop_once(champions) was made at step i of the log.
CycleAt(i) == mon_log[i] \in {"cycle_ok", "cycle_error", "cycle_type_error"}

\* C19: monitor_shop_loop_once is invoked only when the check of
\* shop_still_visible made just before it returned True; the first cycle of
\* an episode comes only after wait_for_shop returned True; and once
\* shop_still_visible has returned False (or detection has raised) no cycle
\* runs until wait_for_shop has returned True again.
C19_CyclesOnlyWhileShopVisible ==
    /\ \A i \in 1..Len(mon_log) :
          CycleAt(i) => (i > 1 /\ mon_log[i - 1] = "visible_true")
    /\ \A i \in 1..Len(mon_log) :
          mon_log[i] = "visible_true" =>
              /\ i > 1
              /\ mon_log[i - 1] = "wait_true" \/ CycleAt(i - 1)
    /\ \A i \in 1..Len(mon_log) : \A j \in (i + 1)..Len(mon_log) :
          (/\ mon_log[i] \in {"visible_false", "visible_raised", "wait_raised"}
           /\ CycleAt(j))
              => \E k \in (i + 1)..(j - 1) : mon_log[k] = "wait_true"
    /\ mon_pc = "cycle" =>
          (mon_log # <<>> /\ Last(mon_log) = "visible_true")

\* An episode of one cycle ended when the shop went away; the next cycle
\* came after wait_for_shop and shop_still_visible had returned True again.
C19_Witness ==
    /\ Len(mon_log) = 6
    /\ mon_log[1] = "wait_true"
    /\ mon_log[2] = "visible_true"
    /\ CycleAt(3)
    /\ mon_log[4] = "visible_false"
    /\ mon_log[5] = "wait_true"
    /\ mon_log[6] = "visible_true"
    /\ mon_pc = "cycle"

\* C20: every cycle made while the shop is visible has its call accepted by
\* monitor_shop_loop_once, which then works on the champion list loaded at
\* startup: no cycle ends in the error handler because of the call itself.
C20_CycleAcceptsChampionList ==
    \A i \in 1..Len(mon_log) :
        CycleAt(i) => mon_log[i] # "cycle_type_error"

-----------------------------------------------------------------------------
(* main.py: main and cleanup; engine/comp_scraper.py: scrape_mobafire_comps *)

CompsJson == "data/comps.json"              \* comp_scraper.py line 69
CompsOutputJson == "data/comps_output.json" \* settings.py line 64

DataFiles == {CompsJson, CompsOutputJson, ChampionsJson, TraitsJson}

\* main.py lines 32-36: the files cleanup removes.
CleanupFiles == {CompsOutputJson, ChampionsJson, TraitsJson}

\* main.py lines 38-41: each file of the list removed if it exists.
cleanup(files) == files \ CleanupFiles

\* The ways scrape_to_json can end: both files written and both paths
\* returned, or (None, None) with whatever a failed save left behind.
ScrapeOutcomes ==
    {[result |-> BothPaths, files |-> {ChampionsJson, TraitsJson}]} \cup
    {[result |-> NoPaths, files |-> left] : left \in FailedSaveLeaves}

\* A slip: no return after the failed scrape, main goes on to the thread.
OnNoChampsPathGoOn == "start_thread"

\* Lines 257-259: without a champions path main logs and returns.
OnNoChampsPath == "returned"

StartupOrder ==
    <<"scrape_comps", "parse_comps", "scrape_champs", "load_champ",
      "start_thread", "register_hotkeys">>

Init ==
    /\ OtherPartsIdle
    /\ InvIdle
    /\ MatchIdle
    /\ GeminiIdle
    /\ ScrapeIdle
    /\ MonIdle
    /\ main_pc = "import"
    /\ main_events = <<>>
    /\ data_files \in SUBSET DataFiles
    /\ written = {}
    /\ html_dir \in BOOLEAN
    /\ threads = 0
    /\ hotkeys = FALSE
    /\ champs_path = "None"
    /\ champions_loaded = FALSE

MainOthers == UNCHANGED <<invVars, matchVars, geminiVars, scrapeVars, monVars, otherParts>>

Begin(step) == main_events' = Append(main_events, step)

\* Line 14 imports ocr.shop_monitor, whose line 1 asks ocr.capture for
\* extract_text_from_images, which capture.py does not define, and whose
\* line 7 loads "data/champs_*.json": ImportError or FileNotFoundError.
\* The program ends before cleanup is registered (line 43) and before
\* main is entered.
MainImportFails ==
    /\ main_pc = "import"
    /\ main_pc' = "import_error"
    /\ UNCHANGED <<main_events, data_files, written, html_dir, threads,
                   hotkeys, champs_path, champions_loaded>>
    /\ MainOthers

\* Lines 8-21, 43 and 288-289, with an ocr.capture that provides
\* extract_text_from_images and a readable "data/champs_*.json": the
\* imports end, cleanup is registered and main is entered.
MainImported ==
    /\ main_pc = "import"
    /\ main_pc' = "scrape_comps"
    /\ UNCHANGED <<main_events, data_files, written, html_dir, threads,
                   hotkeys, champs_path, champions_loaded>>
    /\ MainOthers

\* Line 244, comp_scraper.py lines 50-54: the list of links cannot be
\* fetched; scrape_mobafire_comps returns having written nothing.
ScrapeCompsNoLinks ==
    /\ main_pc = "scrape_comps"
    /\ Begin("scrape_comps")
    /\ main_pc' = "parse_comps"
    /\ UNCHANGED <<data_files, written, html_dir, threads, hotkeys, champs_path,
                   champions_loaded>>
    /\ MainOthers

\* Line 244, comp_scraper.py lines 56-74: the pages that could be fetched are
\* saved under comps_html (get_comp_data creates the directory), and
\* data/comps.json is written.
ScrapeCompsWrites ==
    /\ main_pc = "scrape_comps"
    /\ Begin("scrape_comps")
    /\ \E saved_pages \in BOOLEAN : html_dir' = (html_dir \/ saved_pages)
    /\ data_files' = data_files \cup {CompsJson}
    /\ written' = written \cup {CompsJson}
    /\ main_pc' = "parse_comps"
    /\ UNCHANGED <<threads, hotkeys, champs_path, champions_loaded>>
    /\ MainOthers

\* Line 249, html_to_json.py lines 36-37: no comps_html directory,
\* FileNotFoundError, which main logs and raises again (lines 281-284).
ParseCompsNoDirectory ==
    /\ main_pc = "parse_comps"
    /\ ~html_dir
    /\ Begin("parse_comps")
    /\ main_pc' = "raised"
    /\ UNCHANGED <<data_files, written, html_dir, threads, hotkeys, champs_path,
                   champions_loaded>>
    /\ MainOthers

\* Line 249, html_to_json.py lines 39-58: data/comps_output.json written.
ParseCompsWrites ==
    /\ main_pc = "parse_comps"
    /\ html_dir
    /\ Begin("parse_comps")
    /\ data_files' = data_files \cup {CompsOutputJson}
    /\ written' = written \cup {CompsOutputJson}
    /\ main_pc' = "scrape_champs"
    /\ UNCHANGED <<html_dir, threads, hotkeys, champs_path, champions_loaded>>
    /\ MainOthers

\* Lines 253-259: scrape_to_json, then the test of its first component.
ScrapeChampions ==
    /\ main_pc = "scrape_champs"
    /\ Begin("scrape_champs")
    /\ \E out \in ScrapeOutcomes :
          /\ data_files' = data_files \cup out.files
          /\ written' = written \cup out.files
          /\ champs_path' = out.result.champs
          /\ main_pc' = IF out.result.champs # "None" THEN "load_champ"
                        ELSE OnNoChampsPath
    /\ UNCHANGED <<html_dir, threads, hotkeys, champions_loaded>>
    /\ MainOthers

\* Line 255: load_champ returns the list.
LoadChampions ==
    /\ main_pc = "load_champ"
    /\ Begin("load_champ")
    /\ champions_loaded' = TRUE
    /\ main_pc' = "start_thread"
    /\ UNCHANGED <<data_files, written, html_dir, threads, hotkeys, champs_path>>
    /\ MainOthers

\* Line 255, matching.py lines 23-41: load_champ raises (the file was
\* removed or is not a JSON list); main raises again.
LoadChampionsRaises ==
    /\ main_pc = "load_champ"
    /\ Begin("load_champ")
    /\ main_pc' = "raised"
    /\ UNCHANGED <<data_files, written, html_dir, threads, hotkeys, champs_path,
                   champions_loaded>>
    /\ MainOthers

\* Line 263
StartThread ==
    /\ main_pc = "start_thread"
    /\ Begin("start_thread")
    /\ threads' = threads + 1
    /\ main_pc' = "register_hotkeys"
    /\ UNCHANGED <<data_files, written, html_dir, hotkeys, champs_path,
                   champions_loaded>>
    /\ MainOthers

\* Lines 272-277: the listener is started and main blocks in h.join().
RegisterHotkeys ==
    /\ main_pc = "register_hotkeys"
    /\ Begin("register_hotkeys")
    /\ hotkeys' = TRUE
    /\ main_pc' = "listening"
    /\ UNCHANGED <<data_files, written, html_dir, threads, champs_path,
                   champions_loaded>>
    /\ MainOthers

\* Lines 275-286: Esc or Ctrl-C ends h.join() and main.
StopListening ==
    /\ main_pc = "listening"
    /\ main_pc' = "returned"
    /\ UNCHANGED <<main_events, data_files, written, html_dir, threads, hotkeys,
                   champs_path, champions_loaded>>
    /\ MainOthers

\* Lines 27-43: the interpreter exits and atexit runs cleanup.
CleanupAtExit ==
    /\ main_pc \in {"returned", "raised"}
    /\ data_files' = cleanup(data_files)
    /\ main_pc' = "exited"
    /\ UNCHANGED <<main_events, written, html_dir, threads, hotkeys, champs_path,
                   champions_loaded>>
    /\ MainOthers

Next ==
    \/ MainImportFails
    \/ MainImported
    \/ ScrapeCompsNoLinks
    \/ ScrapeCompsWrites
    \/ ParseCompsNoDirectory
    \/ ParseCompsWrites
    \/ ScrapeChampions
    \/ LoadChampions
    \/ LoadChampionsRaises
    \/ StartThread
    \/ RegisterHotkeys
    \/ StopListening
    \/ CleanupAtExit

Spec == Init /\ [][Next]_vars

-----------------------------------------------------------------------------
(* Claims about main and cleanup *)

IsPrefix(a, b) == Len(a) <= Len(b) /\ a = SubSeq(b, 1, Len(a))

Begun(step) == \E i \in 1..Len(main_events) : main_events[i] = step

\* C9: main begins its startup steps in the order scrape compositions,
\* parse compositions, scrape champions, load champions, start the thread,
\* register hotkeys, each at most once; at most one thread is started, and
\* exactly one once the hotkeys are registered; the thread and the hotkeys
\* come only after the champions were loaded; and when scrape_to_json gives
\* no champions path neither is ever started.
C9_StartupOrder ==
    /\ IsPrefix(main_events, StartupOrder)
    /\ threads <= 1
    /\ threads = 1 <=> Begun("start_thread")
    /\ hotkeys <=> Begun("register_hotkeys")
    /\ hotkeys => threads = 1
    /\ threads = 1 => champions_loaded
    /\ (Begun("scrape_champs") /\ champs_path = "None")
          => (threads = 0 /\ ~hotkeys /\ ~champions_loaded
              /\ main_pc \in {"returned", "exited"})

\* A run that got through all six steps and is listening for hotkeys.
C9_Witness ==
    /\ main_pc = "listening"
    /\ main_events = StartupOrder
    /\ threads = 1
    /\ hotkeys

\* C10: once cleanup has run at exit, no JSON file that this run's startup
\* pipeline wrote under the data directory is left.
C10_NoGeneratedFileSurvives ==
    main_pc = "exited" => written \cap data_files = {}

-----------------------------------------------------------------------------
(* assistant/rules_engine.py: process_voice_query and TFTAssistant *)

\* Line 112: not query or not isinstance(query, str).
InvalidQuery(query) == ~IsStr(query) \/ query.s = <<>>

\* Lines 118-119: query.strip() leaves nothing.
EmptyQuery(query) == Strip(query.s) = <<>>

\* GeminiClient.__init__ (gemini_service.py lines 29-33) and
\* _ensure_data_files (rules_engine.py lines 25-30), in the order __init__
\* of TFTAssistant runs them: the exception raised, "" when none is.
ConstructorRaises(key, files) ==
    IF ~key THEN "GeminiAPIError"
    ELSE IF files.champions = "missing" \/ files.comps = "missing"
         THEN "FileNotFoundError"
         ELSE ""

\* _load_data (lines 32-48): open and json.load of both files; the
\* exception re-raised, "" when both load.
LoadDataRaises(files) ==
    IF files.champions = "missing" THEN "FileNotFoundError"
    ELSE IF files.champions = "invalid" THEN "JSONDecodeError"
    ELSE IF files.comps = "missing" THEN "FileNotFoundError"
    ELSE IF files.comps = "invalid" THEN "JSONDecodeError"
    ELSE ""

\* The except clauses of lines 220-236: the message returned for an
\* exception raised inside the try block.
HandlerMessage(exc) ==
    CASE exc = "GeminiAPIError" -> "AI service error"
      [] exc = "FileNotFoundError" -> "Data file error"
      [] OTHER -> "Unexpected error"

ReturnsMessage(msg) == [raised |-> "", value |-> msg]

Propagates(exc) == [raised |-> exc, value |-> ""]

\* A slip: the vision value wins whenever one was detected.
MergeFieldVisionFirst(manual, vision) ==
    IF vision.set THEN vision ELSE manual

\* Lines 145-150: manual_state.x is None and vision_data.get('x') is not None.
MergeField(manual, vision) ==
    IF ~manual.set /\ vision.set THEN vision ELSE manual

\* Python truth of an optional string: None and "" are false.
TruthyStr(o) == o.set /\ o.v # ""

\* Lines 151-152: the round is taken when vision_data.get('round_stage') is
\* true.
MergeRound(manual, vision) ==
    IF ~manual.set /\ TruthyStr(vision) THEN vision ELSE manual

\* bool(vision_data): None and the empty dict are false.
TruthyStats(vision) ==
    /\ ~vision.none
    /\ \/ vision.gold.set
       \/ vision.level.set
       \/ vision.health.set
       \/ vision.round_stage.set

\* Lines 143-162: manual_state after the merge.  A GameStateInput is always
\* true; None is false.
MergeStates(manual, vision) ==
    IF ~manual.none /\ TruthyStats(vision)
    THEN [manual EXCEPT
            !.gold = MergeField(manual.gold, vision.gold),
            !.level = MergeField(manual.level, vision.level),
            !.health = MergeField(manual.health, vision.health),
            !.round_stage = MergeRound(manual.round_stage, vision.round_stage)]
    ELSE IF TruthyStats(vision) /\ manual.none
    THEN [GameStateInput EXCEPT
            !.gold = vision.gold,
            !.level = vision.level,
            !.health = vision.health,
            !.round_stage = vision.round_stage]
    ELSE manual

-----------------------------------------------------------------------------
(* Calls of the module-level process_voice_query as a state machine *)

CoreIdle ==
    /\ InvIdle
    /\ MatchIdle
    /\ GeminiIdle
    /\ ScrapeIdle
    /\ MonIdle
    /\ MainIdle

FileStates == {"missing", "valid", "invalid"}

VoiceQueries ==
    {PyNone, PyInt, Str(<<>>), Str(<<" ">>), Str(<<"a", "b">>)}

\* What parse_user_game_state returns: None, or a state in which something
\* was extracted.
ParsedStates ==
    {NoState} \cup
    {st \in [none : {FALSE},
             gold : {Unset, Some(0), Some(5)},
             level : {Unset, Some(7)},
             health : {Unset, Some(40)},
             round_stage : {UnsetStr, Some("3-1")},
             board_champions : {<<>>, <<"jinx">>},
             bench_champions : {<<>>},
             shop_champions : {<<>>},
             target_comp : {UnsetStr, Some("enforcers")}] :
        st # GameStateInput}

\* What get_game_stats_only returns (game_state_analyzer.py lines 374-437):
\* a dict with int(digits) under gold, level and health and a digits-digits
\* string under round_stage, each only when found; None stands for the
\* exception caught at rules_engine.py line 139.
VisionStats ==
    {NoVision} \cup
    [none : {FALSE},
     gold : {Unset, Some(0), Some(9)},
     level : {Unset, Some(8)},
     health : {Unset, Some(0)},
     round_stage : {UnsetStr, Some("4-2")}]

\* What generate_content ends in (gemini_service.py lines 110-140).
GenerateOutcomes == {"answer", "empty", "GeminiAPIError", "ValueError"}

InitVoice ==
    /\ CoreIdle
    /\ ParseIdle
    /\ ConfigIdle
    /\ WaitIdle
    /\ SpeakIdle
    /\ ShopIdle
    /\ pv_key \in BOOLEAN
    /\ pv_files \in [champions : FileStates, comps : FileStates]
    /\ pv_assistant = FALSE
    /\ pv_pc = "call"
    /\ pv_query \in VoiceQueries
    /\ pv_manual = NoState
    /\ pv_vision = NoVision
    /\ pv_state = NoState
    /\ pv_result = [raised |-> "", value |-> ""]

VoiceOthers ==
    UNCHANGED <<coreVars, parseVars, cfgVars, waitVars, speakVars, shopVars>>

\* get_assistant, lines 241-246, on a call with no assistant yet:
\* TFTAssistant() returns.
GetAssistantCreates ==
    /\ pv_pc = "call"
    /\ ~pv_assistant
    /\ ConstructorRaises(pv_key, pv_files) = ""
    /\ pv_assistant' = TRUE
    /\ pv_pc' = "method"
    /\ UNCHANGED <<pv_key, pv_files, pv_query, pv_manual, pv_vision, pv_state,
                   pv_result>>
    /\ VoiceOthers

\* TFTAssistant() raises: line 250 is in no try block, so the caller of
\* process_voice_query gets the exception and _global_assistant stays None.
GetAssistantRaises ==
    /\ pv_pc = "call"
    /\ ~pv_assistant
    /\ ConstructorRaises(pv_key, pv_files) # ""
    /\ pv_result' = Propagates(ConstructorRaises(pv_key, pv_files))
    /\ pv_pc' = "done"
    /\ UNCHANGED <<pv_key, pv_files, pv_assistant, pv_query, pv_manual,
                   pv_vision, pv_state>>
    /\ VoiceOthers

\* get_assistant on a later call: the instance is reused.
GetAssistantCached ==
    /\ pv_pc = "call"
    /\ pv_assistant
    /\ pv_pc' = "method"
    /\ UNCHANGED <<pv_key, pv_files, pv_assistant, pv_query, pv_manual,
                   pv_vision, pv_state, pv_result>>
    /\ VoiceOthers

\* Lines 112-123: the two early returns.
MethodRejects ==
    /\ pv_pc = "method"
    /\ InvalidQuery(pv_query) \/ EmptyQuery(pv_query)
    /\ pv_result' = IF InvalidQuery(pv_query)
                    THEN ReturnsMessage("Invalid query provided")
                    ELSE ReturnsMessage("Empty query provided")
    /\ pv_pc' = "done"
    /\ UNCHANGED <<pv_key, pv_files, pv_assistant, pv_query, pv_manual,
                   pv_vision, pv_state>>
    /\ VoiceOthers

\* Lines 129-162: the query is parsed, the vision stats are read (or not)
\* and the two are merged.
ParseAndMerge ==
    /\ pv_pc = "method"
    /\ ~InvalidQuery(pv_query)
    /\ ~EmptyQuery(pv_query)
    /\ \E manual \in ParsedStates, vision \in VisionStats :
          /\ pv_manual' = manual
          /\ pv_vision' = vision
          /\ pv_state' = MergeStates(manual, vision)
    /\ pv_pc' = "load"
    /\ UNCHANGED <<pv_key, pv_files, pv_assistant, pv_query, pv_result>>
    /\ VoiceOthers

\* Line 165: _load_data; what it raises is caught at lines 226-236.
LoadData ==
    /\ pv_pc = "load"
    /\ IF LoadDataRaises(pv_files) = ""
       THEN /\ pv_pc' = "ask"
            /\ UNCHANGED pv_result
       ELSE /\ pv_pc' = "done"
            /\ pv_result' =
                  ReturnsMessage(HandlerMessage(LoadDataRaises(pv_files)))
    /\ UNCHANGED <<pv_key, pv_files, pv_assistant, pv_query, pv_manual,
                   pv_vision, pv_state>>
    /\ VoiceOthers

\* Lines 208-236: generate_content returns the answer, returns "", or
\* raises; every exception is turned into a returned message.
GenerateContent ==
    /\ pv_pc = "ask"
    /\ \E out \in GenerateOutcomes :
          pv_result' =
              CASE out = "answer" -> ReturnsMessage("answer")
                [] out = "empty" -> ReturnsMessage("No response generated")
                [] OTHER -> ReturnsMessage(HandlerMessage(out))
    /\ pv_pc' = "done"
    /\ UNCHANGED <<pv_key, pv_files, pv_assistant, pv_query, pv_manual,
                   pv_vision, pv_state>>
    /\ VoiceOthers

\* Before a later call a data file is removed, replaced or damaged.
DataFileChanges ==
    /\ pv_pc = "call"
    /\ pv_assistant
    /\ \E f \in {"champions", "comps"}, st \in FileStates :
          /\ pv_files[f] # st
          /\ pv_files' = [pv_files EXCEPT ![f] = st]
    /\ UNCHANGED <<pv_key, pv_assistant, pv_pc, pv_query, pv_manual,
                   pv_vision, pv_state, pv_result>>
    /\ VoiceOthers

\* The next call of process_voice_query.
NextQuery ==
    /\ pv_pc = "done"
    /\ pv_query' \in VoiceQueries
    /\ pv_pc' = "call"
    /\ pv_manual' = NoState
    /\ pv_vision' = NoVision
    /\ pv_state' = NoState
    /\ pv_result' = [raised |-> "", value |-> ""]
    /\ UNCHANGED <<pv_key, pv_files, pv_assistant>>
    /\ VoiceOthers

NextVoice ==
    \/ GetAssistantCreates
    \/ GetAssistantRaises
    \/ GetAssistantCached
    \/ MethodRejects
    \/ ParseAndMerge
    \/ LoadData
    \/ GenerateContent
    \/ DataFileChanges
    \/ NextQuery

SpecVoice == InitVoice /\ [][NextVoice]_vars

-----------------------------------------------------------------------------
(* Claims about process_voice_query *)

\* C11: process_voice_query(query) returns a string for every input and
\* never lets an exception reach its caller: a call that has ended has
\* returned a message, also when the data files are missing or the AI
\* service is unavailable or has no key, and also on the first call, the
\* one that creates the global assistant.
C11_NeverPropagates ==
    pv_pc = "done" => (pv_result.raised = "" /\ pv_result.value # "")

Merged ==
    /\ pv_pc \in {"load", "ask", "done"}
    /\ ~pv_manual.none
    /\ TruthyStats(pv_vision)

\* The value the claim gives a field: the stated one, else the detected one.
ManualElseVision(manual, vision) ==
    IF manual.set THEN manual ELSE IF vision.set THEN vision ELSE manual

\* C13: after process_voice_query has merged a parsed manual state with the
\* vision stats, gold, level, health and round each hold the manual value
\* if one was parsed, else the vision value if one was detected (a detected
\* 0 included), else stay unset; the champion lists and the target
\* composition are those of the manual state.
C13_ManualValuesWin ==
    Merged =>
        /\ pv_state.gold = ManualElseVision(pv_manual.gold, pv_vision.gold)
        /\ pv_state.level = ManualElseVision(pv_manual.level, pv_vision.level)
        /\ pv_state.health
              = ManualElseVision(pv_manual.health, pv_vision.health)
        /\ pv_state.round_stage
              = ManualElseVision(pv_manual.round_stage, pv_vision.round_stage)
        /\ pv_state.board_champions = pv_manual.board_champions
        /\ pv_state.bench_champions = pv_manual.bench_champions
        /\ pv_state.shop_champions = pv_manual.shop_champions
        /\ pv_state.target_comp = pv_manual.target_comp
        /\ ~pv_state.none

\* A merge in which the user stated a level that vision read differently,
\* stated no gold while vision read 0, and neither gave the health.
C13_Witness ==
    /\ Merged
    /\ pv_manual.level.set /\ pv_vision.level.set
    /\ pv_manual.level # pv_vision.level
    /\ pv_state.level = pv_manual.level
    /\ ~pv_manual.gold.set /\ pv_vision.gold = Some(0)
    /\ pv_state.gold = Some(0)
    /\ ~pv_manual.health.set /\ ~pv_vision.health.set
    /\ ~pv_state.health.set
    /\ pv_state.board_champions = <<"jinx">>

-----------------------------------------------------------------------------
(* assistant/manual_input_handler.py: parse_voice_input *)

\* A query is a sequence of tokens joined by single spaces.  The tokens of
\* the model: a trigger of each regular expression and keyword list, two
\* number-like words, a champion name as typed, and a misspelt one.
Vocabulary ==
    {"with", "0", "4-2", "gold", "level", "hp", "round", "on board",
     "on bench", "in shop", "playing", "Jinx", "jnx"}

\* str.lower, on a token.
LowerToken(t) == IF t = "Jinx" THEN "jinx" ELSE t

\* Line 85: query.lower().strip(), token by token.
LowerQuery(query) == [i \in 1..Len(query) |-> LowerToken(query[i])]

\* \d+ matches at the start of the token, and what int() makes of the match.
StartsWithDigits(t) == t \in {"0", "4-2"}
LeadingInt(t) == IF t = "4-2" THEN 4 ELSE 0

\* \d+ matches the whole token.
AllDigits(t) == t = "0"

\* \d+[-–]\d+ matches at the start of the token.
RoundLike(t) == t = "4-2"

\* [a-zA-Z\s]+ matches the whole token.
LettersOnly(t) == ~StartsWithDigits(t)

Min(S) == CHOOSE x \in S : \A y \in S : x <= y

\* str.find on tokens: the first position of tok in s, 0 when there is none.
IndexOf(s, tok) ==
    LET at == {i \in 1..Len(s) : s[i] = tok}
    IN  IF at = {} THEN 0 ELSE Min(at)

\* Lines 91-94: (?:i have|with|got)\s*(\d+)\s*gold, leftmost match.
ParseGold(q) ==
    LET at == {i \in 1..(Len(q) - 2) :
                  q[i] = "with" /\ AllDigits(q[i + 1]) /\ q[i + 2] = "gold"}
    IN  IF at = {} THEN Unset ELSE Some(LeadingInt(q[Min(at) + 1]))

\* Lines 97-106: (?:level|lvl)\s*(\d+) and (?:health|hp|life)\s*(\d+).
NumberAfter(q, keyword) ==
    LET at == {i \in 1..(Len(q) - 1) :
                  q[i] = keyword /\ StartsWithDigits(q[i + 1])}
    IN  IF at = {} THEN Unset ELSE Some(LeadingInt(q[Min(at) + 1]))

\* Lines 109-112: round\s*(\d+[-–]\d+).
ParseRound(q) ==
    LET at == {i \in 1..(Len(q) - 1) :
                  q[i] = "round" /\ RoundLike(q[i + 1])}
    IN  IF at = {} THEN UnsetStr ELSE Some(q[Min(at) + 1])

\* query.split(keyword, 1)[1]: what follows the first keyword.
AfterKeyword(q, keyword) == SubSeq(q, IndexOf(q, keyword) + 1, Len(q))

\* The stop-word loops (lines 121-126, 160-165, 179-184): the first stop
\* word of the list that occurs at all cuts the text at its first
\* occurrence.
RECURSIVE CutAtStopWord(_, _)
CutAtStopWord(after, stop_words) ==
    IF stop_words = <<>> THEN after
    ELSE IF IndexOf(after, Head(stop_words)) # 0
         THEN SubSeq(after, 1, IndexOf(after, Head(stop_words)) - 1)
         ELSE CutAtStopWord(after, Tail(stop_words))


\* str.split() of a token: its words.
WordsOf(t) ==
    CASE t = "on board" -> <<"on", "board">>
      [] t = "on bench" -> <<"on", "bench">>
      [] t = "in shop" -> <<"in", "shop">>
      [] OTHER -> <<t>>

RECURSIVE SplitWords(_)
SplitWords(tokens) ==
    IF tokens = <<>> THEN <<>>
    ELSE WordsOf(Head(tokens)) \o SplitWords(Tail(tokens))

\* Line 248.
FillerWords ==
    {"with", "plus", "also", "have", "got", "a", "an", "the", "is", "are"}

\* Line 249: the words of the segment that are no filler words.
RECURSIVE DropFillers(_)
DropFillers(words) ==
    IF words = <<>> THEN <<>>
    ELSE IF Head(words) \in FillerWords
         THEN DropFillers(Tail(words))
         ELSE <<Head(words)>> \o DropFillers(Tail(words))

\* The characters of a word of the vocabulary.
Chars(s) ==
    CASE s = "with" -> <<"w", "i", "t", "h">>
      [] s = "0" -> <<"0">>
      [] s = "4-2" -> <<"4", "-", "2">>
      [] s = "gold" -> <<"g", "o", "l", "d">>
      [] s = "level" -> <<"l", "e", "v", "e", "l">>
      [] s = "hp" -> <<"h", "p">>
      [] s = "round" -> <<"r", "o", "u", "n", "d">>
      [] s = "on" -> <<"o", "n">>
      [] s = "board" -> <<"b", "o", "a", "r", "d">>
      [] s = "bench" -> <<"b", "e", "n", "c", "h">>
      [] s = "in" -> <<"i", "n">>
      [] s = "shop" -> <<"s", "h", "o", "p">>
      [] s = "playing" -> <<"p", "l", "a", "y", "i", "n", "g">>
      [] s = "jinx" -> <<"j", "i", "n", "x">>
      [] s = "jnx" -> <<"j", "n", "x">>
      [] OTHER -> <<>>

\* The string made of the characters.
RECURSIVE JoinChars(_)
JoinChars(chars) ==
    IF chars = <<>> THEN "" ELSE Head(chars) \o JoinChars(Tail(chars))

\* An entry of the alias dict: the characters of key and value.
Alias(alias, name) == [alias |-> alias, name |-> name]

\* Lines 40-56, in dict order.
BuiltinAliases ==
    << Alias(<<"m", "f">>,
             <<"m", "i", "s", "s", " ", "f", "o", "r", "t", "u", "n", "e">>),
       Alias(<<"g", "p">>,
             <<"g", "a", "n", "g", "p", "l", "a", "n", "k">>),
       Alias(<<"e", "z">>,
             <<"e", "z", "r", "e", "a", "l">>),
       Alias(<<"t", "f">>,
             <<"t", "w", "i", "s", "t", "e", "d", " ", "f", "a", "t", "e">>),
       Alias(<<"a", "s", "h", "e">>,
             <<"a", "s", "h", "e">>),
       Alias(<<"j", "i", "n", "x">>,
             <<"j", "i", "n", "x">>),
       Alias(<<"v", "i">>,
             <<"v", "i">>),
       Alias(<<"c", "a", "i", "t">>,
             <<"c", "a", "i", "t", "l", "y", "n">>),
       Alias(<<"j", "a", "y", "c", "e">>,
             <<"j", "a", "y", "c", "e">>),
       Alias(<<"v", "i", "k", "t", "o", "r">>,
             <<"v", "i", "k", "t", "o", "r">>),
       Alias(<<"e", "k", "k", "o">>,
             <<"e", "k", "k", "o">>),
       Alias(<<"w", "a", "r", "w", "i", "c", "k">>,
             <<"w", "a", "r", "w", "i", "c", "k">>),
       Alias(<<"w", "w">>,
             <<"w", "a", "r", "w", "i", "c", "k">>) >>

\* aliases[key] = value: an existing key keeps its place.
PutAlias(aliases, key, value) ==
    IF \E k \in 1..Len(aliases) : aliases[k].alias = key
    THEN [k \in 1..Len(aliases) |->
            IF aliases[k].alias = key THEN [alias |-> key, name |-> value]
            ELSE aliases[k]]
    ELSE Append(aliases, [alias |-> key, name |-> value])

\* str.replace(' ', '')
RECURSIVE WithoutSpaces(_)
WithoutSpaces(chars) ==
    IF chars = <<>> THEN <<>>
    ELSE IF Head(chars) = " " THEN WithoutSpaces(Tail(chars))
    ELSE <<Head(chars)>> \o WithoutSpaces(Tail(chars))

\* Lines 64-70: each entry of the file adds its lower-cased name, and the
\* name without spaces when it has one.  An entry that is no dict, or whose
\* name is no string, raises; line 71 catches it and the aliases added so
\* far stay.
RECURSIVE AliasesFromFile(_, _)
AliasesFromFile(entries, aliases) ==
    IF entries = <<>> THEN aliases
    ELSE LET champ == Head(entries)
         IN  IF ~champ.dict \/ ~IsStr(GetName(champ)) THEN aliases
             ELSE LET name == Lower(GetName(champ).s)
                      named == PutAlias(aliases, name, name)
                  IN  AliasesFromFile(
                          Tail(entries),
                          IF \E i \in 1..Len(name) : name[i] = " "
                          THEN PutAlias(named, WithoutSpaces(name), name)
                          ELSE named)

\* _load_champion_aliases, lines 37-74: the built-in aliases, then those of
\* data/champions.json when it is there and can be read.
ChampionAliases(file) ==
    IF file.kind = "list" THEN AliasesFromFile(file.entries, BuiltinAliases)
    ELSE BuiltinAliases

\* ' '.join(words), as characters.
RECURSIVE SegmentChars(_)
SegmentChars(words) ==
    IF words = <<>> THEN <<>>
    ELSE IF Len(words) = 1 THEN Chars(Head(words))
    ELSE Chars(Head(words)) \o <<" ">> \o SegmentChars(Tail(words))

\* sub in text
Contains(text, sub) ==
    \E i \in 1..(Len(text) - Len(sub) + 1) :
        SubSeq(text, i, i + Len(sub) - 1) = sub

\* Lines 257-262: the first alias that is the segment or occurs in it; 0
\* when none does.
AliasFound(aliases, words) ==
    LET at == {k \in 1..Len(aliases) :
                  Contains(SegmentChars(words), aliases[k].alias)}
    IN  IF at = {} THEN 0 ELSE Min(at)

\* list(self.champion_aliases.values())
AliasNames(aliases) == [k \in 1..Len(aliases) |-> Str(aliases[k].name)]

\* data/champions.json: not there, not JSON, or a list of entries.
ChampionFiles ==
    {[kind |-> "missing", entries |-> <<>>],
     [kind |-> "list",
      entries |-> <<DictEntry(Str(<<"J", "i", "n", "x">>)),
                    DictEntry(Str(<<"B", "a", "r", "d">>))>>],
     [kind |-> "list",
      entries |-> <<DictEntry(Str(<<"M", "f">>)), NamelessDict, NotADict,
                    DictEntry(Str(<<"B", "a", "r", "d">>))>>]}

\* The names a handler can hold: the built-in ones and those of the entries
\* of a file.  The texts a query can have matched: the cleaned segments of
\* what follows a keyword, and their words.
FileNames(file) ==
    {Lower(GetName(champ).s) :
        champ \in {e \in Range(file.entries) : e.dict /\ IsStr(GetName(e))}}
MatchNames ==
    {alias.name : alias \in Range(BuiltinAliases)}
        \cup UNION {FileNames(file) : file \in ChampionFiles}
SegmentTexts ==
    SeqsUpTo({LowerToken(t) : t \in Vocabulary}, MaxQueryLen - 1)
CleanedSegments == {DropFillers(SplitWords(text)) : text \in SegmentTexts}
MatchTexts ==
    {SegmentChars(words) : words \in CleanedSegments}
        \cup {Chars(w) : w \in UNION {Range(words) : words \in CleanedSegments}}

\* fuzz.ratio of every text and name, worked out once and kept as an
\* explicit function.
Ratios == [tn \in MatchTexts \X MatchNames |-> Ratio(tn[1], tn[2])] @@ <<>>

Score(text, name) ==
    IF text \in MatchTexts /\ name \in MatchNames
    THEN Ratios[<<text, name>>]
    ELSE Ratio(text, name)

RECURSIVE NameScores(_, _)
NameScores(text, names) ==
    IF names = <<>> THEN <<>>
    ELSE <<Score(text, Head(names).s)>> \o NameScores(text, Tail(names))

\* process.extractOne(text, champion_names, scorer=fuzz.ratio): the first
\* name of the highest score, with the score rounded down (score) and as
\* the fraction it is (ratio).
ExtractBest(names, text) ==
    LET scores == NameScores(text, names)
        hit == ExtractOne(scores, 0, 1, 0, NoScore)
    IN  [name |-> JoinChars(names[hit].s),
         score |-> scores[hit].num \div scores[hit].den,
         ratio |-> scores[hit]]

\* match[1] > cutoff
ScoresAbove(match, cutoff) == match.ratio.num > cutoff * match.ratio.den

\* Line 279: the match of one word.
BestMatch(aliases, word) == ExtractBest(AliasNames(aliases), Chars(word))

\* Line 271: the match of the whole segment.
SegmentMatch(aliases, words) ==
    ExtractBest(AliasNames(aliases), SegmentChars(words))

\* Lines 277-283: the first word of three letters or more that scores above
\* 75; 0 when there is none.
FuzzyWord(aliases, words) ==
    LET at == {i \in 1..Len(words) :
                  /\ Len(Chars(words[i])) >= 3
                  /\ ScoresAbove(BestMatch(aliases, words[i]), 75)}
    IN  IF at = {} THEN 0 ELSE Min(at)

\* _extract_champions_from_text on a text without ',', ' and ' or ' & ':
\* one segment, so at most one champion.
extract_champions_from_text(aliases, text) ==
    LET words == DropFillers(SplitWords(text))
        found == AliasFound(aliases, words)
        match == SegmentMatch(aliases, words)
        word == FuzzyWord(aliases, words)
    IN  IF words = <<>> THEN <<>>
        ELSE IF found # 0 THEN <<JoinChars(aliases[found].name)>>
        ELSE IF ScoresAbove(match, 80) THEN <<match.name>>
        ELSE IF word # 0 THEN <<BestMatch(aliases, words[word]).name>>
        ELSE <<>>

\* Lines 115-132, 147-171, 174-190: the champions named after the first
\* keyword of a list, up to the stop word.
ChampionsAfter(aliases, q, keyword, stop_words) ==
    IF IndexOf(q, keyword) = 0 THEN <<>>
    ELSE extract_champions_from_text(
             aliases, CutAtStopWord(AfterKeyword(q, keyword), stop_words))

\* Line 135: with\s+([a-zA-Z\s]+?)\s+on\s+(?:my\s+)?board, leftmost and
\* shortest: the tokens between a "with" and the first "on board" at least
\* one token later, all of letters.  <<0, 0>> when there is no match.
WithBoardMatch(q) ==
    LET ends(i) == {j \in (i + 2)..Len(q) :
                       /\ q[j] = "on board"
                       /\ \A k \in (i + 1)..(j - 1) : LettersOnly(q[k])}
        starts == {i \in 1..Len(q) : q[i] = "with" /\ ends(i) # {}}
    IN  IF starts = {} THEN <<0, 0>>
        ELSE <<Min(starts), Min(ends(Min(starts)))>>

\* Lines 114-144: the board champions.
ParseBoard(aliases, q) ==
    LET after == ChampionsAfter(aliases, q, "on board",
                                <<"on bench", "in shop">>)
        m == WithBoardMatch(q)
    IN  IF after # <<>> \/ m = <<0, 0>> THEN after
        ELSE extract_champions_from_text(
                 aliases, SubSeq(q, m[1] + 1, m[2] - 1))

\* " ".join of tokens.
RECURSIVE JoinTokens(_)
JoinTokens(tokens) ==
    IF tokens = <<>> THEN ""
    ELSE IF Len(tokens) = 1 THEN Head(tokens)
    ELSE Head(tokens) \o " " \o JoinTokens(Tail(tokens))

\* The longest prefix of tokens made of letters only.
RECURSIVE LetterRun(_)
LetterRun(tokens) ==
    IF tokens = <<>> \/ ~LettersOnly(Head(tokens)) THEN <<>>
    ELSE <<Head(tokens)>> \o LetterRun(Tail(tokens))

\* Lines 193-202: re.search(r'([a-zA-Z\s]+)') in what follows the keyword
\* finds the space after it and the letter words that come next; nothing
\* follows a keyword that ends the query.  The match is stripped.
ParseTarget(q) ==
    IF IndexOf(q, "playing") = 0 \/ AfterKeyword(q, "playing") = <<>>
    THEN UnsetStr
    ELSE Some(JoinTokens(LetterRun(AfterKeyword(q, "playing"))))

\* Lines 88-202: the state filled in from the query.
ParsedState(aliases, query) ==
    LET q == LowerQuery(query)
    IN  [none |-> FALSE,
         gold |-> ParseGold(q),
         level |-> NumberAfter(q, "level"),
         health |-> NumberAfter(q, "hp"),
         round_stage |-> ParseRound(q),
         board_champions |-> ParseBoard(aliases, q),
         bench_champions |->
             ChampionsAfter(aliases, q, "on bench", <<"in shop">>),
         shop_champions |->
             ChampionsAfter(aliases, q, "in shop", <<"playing">>),
         target_comp |-> ParseTarget(q)]

\* A slip: the numbers are tested for truth, so a parsed 0 counts for
\* nothing.
ParsedSomethingTruthy(state) ==
    \/ state.gold.set /\ state.gold.v # 0
    \/ state.level.set /\ state.level.v # 0
    \/ state.health.set /\ state.health.v # 0
    \/ TruthyStr(state.round_stage)
    \/ state.board_champions # <<>>
    \/ state.bench_champions # <<>>
    \/ state.shop_champions # <<>>
    \/ TruthyStr(state.target_comp)

\* Lines 205-214: the any([...]) test.
ParsedSomething(state) ==
    \/ state.gold.set
    \/ state.level.set
    \/ state.health.set
    \/ state.round_stage.set
    \/ state.board_champions # <<>>
    \/ state.bench_champions # <<>>
    \/ state.shop_champions # <<>>
    \/ TruthyStr(state.target_comp)

\* Lines 205-217: the state when the test passes, None otherwise.
ReturnedState(state) == IF ParsedSomething(state) THEN state ELSE NoState

\* parse_voice_input, lines 76-217.
parse_voice_input(aliases, query) ==
    ReturnedState(ParsedState(aliases, query))

-----------------------------------------------------------------------------
(* One call of parse_voice_input as a state machine *)

InitParse ==
    /\ CoreIdle
    /\ VoiceIdle
    /\ ConfigIdle
    /\ WaitIdle
    /\ SpeakIdle
    /\ ShopIdle
    /\ p_champs_file \in ChampionFiles
    /\ p_query \in SeqsUpTo(Vocabulary, MaxQueryLen)
    /\ p_pc = "call"
    /\ p_state = NoState
    /\ p_result = NoState

ParseVoiceInput ==
    /\ p_pc = "call"
    /\ p_state' = ParsedState(ChampionAliases(p_champs_file), p_query)
    /\ p_result' = ReturnedState(p_state')
    /\ p_pc' = "returned"
    /\ UNCHANGED <<p_champs_file, p_query>>
    /\ UNCHANGED <<coreVars, voiceVars, cfgVars, waitVars, speakVars, shopVars>>

NextParse == ParseVoiceInput

SpecParse == InitParse /\ [][NextParse]_vars

-----------------------------------------------------------------------------
(* Claims about parse_voice_input *)

\* What was extracted from the query: a number after its trigger (0
\* included), a round, a champion in a list, a non-empty composition name.
Extracted(state) ==
    {f \in {"gold", "level", "health", "round", "board", "bench", "shop",
            "target"} :
        CASE f = "gold" -> state.gold.set
          [] f = "level" -> state.level.set
          [] f = "health" -> state.health.set
          [] f = "round" -> state.round_stage.set
          [] f = "board" -> Len(state.board_champions) > 0
          [] f = "bench" -> Len(state.bench_champions) > 0
          [] f = "shop" -> Len(state.shop_champions) > 0
          [] OTHER -> state.target_comp.set /\ state.target_comp.v # ""}

\* C12: parse_voice_input returns None exactly when none of gold, level,
\* health, round, board champions, bench champions, shop champions or
\* target composition was extracted from the query; whenever at least one
\* was extracted it returns the GameStateInput holding what was extracted.
C12_NoneIffNothingExtracted ==
    p_pc = "returned" =>
        /\ p_result.none <=> Extracted(p_state) = {}
        /\ ~p_result.none => p_result = p_state

\* "with 0 gold": the only thing extracted is a gold of 0, and the state is
\* returned.
C12_Witness ==
    /\ p_pc = "returned"
    /\ Extracted(p_state) = {"gold"}
    /\ ~p_result.none
    /\ p_result.gold = Some(0)

-----------------------------------------------------------------------------
(* config/settings.py: ConfigManager *)

\* AppSettings.from_dict, lines 92-102: a key of the file gives the field,
\* a key that is not there leaves the dataclass default.
from_dict(data) ==
    [f \in DOMAIN DefaultSettings |->
        IF data[f].has THEN data[f].val ELSE DefaultSettings[f]]

\* Lines 117-131: the settings before the environment is applied.  A file
\* that cannot be read, is no JSON, or does not fit the dataclasses raises
\* inside the try block and leaves the defaults.
SettingsFromFile(file) ==
    IF file.kind = "valid" THEN from_dict(file.data) ELSE DefaultSettings

\* str.upper, on the values LOG_LEVEL takes in the model.
Upper(v) == IF v = "debug" THEN "DEBUG" ELSE v

\* float(v), in tenths: ok is FALSE for the ValueError.
ParseFloat(v) ==
    CASE v = "0.5" -> [ok |-> TRUE, val |-> 5]
      [] v = "45" -> [ok |-> TRUE, val |-> 450]
      [] OTHER -> [ok |-> FALSE, val |-> 0]

\* A slip: the environment fills a field only while it holds the default.
OverrideIfDefault(current, default, envvar, value) ==
    IF TruthyStr(envvar) /\ current = default THEN value ELSE current

\* The pattern of lines 142-154: value = os.getenv(...); if value: assign.
Override(current, default, envvar, value) ==
    IF TruthyStr(envvar) THEN value ELSE current

\* Lines 157-170: the float settings keep their value on a ValueError.
FloatOrKeep(current, envvar) ==
    IF ParseFloat(envvar.v).ok THEN ParseFloat(envvar.v).val ELSE current

\* _apply_env_overrides, lines 139-170.
apply_env_overrides(settings, env) ==
    [settings EXCEPT
        !.api_key = Override(@, DefaultSettings.api_key, env.GEMINI_API_KEY,
                             Some(env.GEMINI_API_KEY.v)),
        !.level = Override(@, DefaultSettings.level, env.LOG_LEVEL,
                           Upper(env.LOG_LEVEL.v)),
        !.data_dir = Override(@, DefaultSettings.data_dir, env.DATA_DIR,
                              env.DATA_DIR.v),
        !.confidence_threshold =
            Override(@, DefaultSettings.confidence_threshold,
                     env.OCR_CONFIDENCE, FloatOrKeep(@, env.OCR_CONFIDENCE)),
        !.timeout = Override(@, DefaultSettings.timeout, env.GEMINI_TIMEOUT,
                             FloatOrKeep(@, env.GEMINI_TIMEOUT))]

\* load, lines 117-137, when nothing is cached.
load(file, env) == apply_env_overrides(SettingsFromFile(file), env)

\* A slip: the dict is written as to_dict gives it.
SaveDataWithKey(settings) ==
    [f \in DOMAIN settings |-> Present(settings[f])]

\* save, lines 177-180: asdict(settings) with gemini.api_key set to None.
SaveData(settings) ==
    [f \in DOMAIN settings |->
        IF f = "api_key" THEN Present(UnsetStr) ELSE Present(settings[f])]

-----------------------------------------------------------------------------
(* One ConfigManager as a state machine *)

EnvValues ==
    [GEMINI_API_KEY : {UnsetStr, Some(""), Some("envkey")},
     LOG_LEVEL : {UnsetStr, Some("debug")},
     DATA_DIR : {UnsetStr, Some("envdata")},
     OCR_CONFIDENCE : {UnsetStr, Some("0.5"), Some("abc")},
     GEMINI_TIMEOUT : {UnsetStr, Some("45")}]

\* The config.json a user may have left: none, one that does not load, or
\* one holding any of the keys.
ConfigFiles ==
    {NoConfigFile,
     [kind |-> "invalid", writer |-> "user", data |-> EmptyConfig]} \cup
    [kind : {"valid"}, writer : {"user"},
     data : [api_key : {AbsentKey, Present(Some("filekey"))},
             level : {AbsentStr, Present("WARNING")},
             data_dir : {AbsentStr, Present("filedata")},
             confidence_threshold : {AbsentNum, Present(9)},
             timeout : {AbsentNum, Present(600)},
             model : {AbsentStr, Present("gemini-pro")}]]

\* How the write of save ends: the file is written, an exception comes
\* before the file is opened, or one comes while json.dump writes.
SaveOutcomes == {"written", "not_opened", "cut_short"}

FileAfterSave(file, settings, outcome) ==
    CASE outcome = "written" ->
            [kind |-> "valid", writer |-> "save", data |-> SaveData(settings)]
      [] outcome = "cut_short" ->
            [kind |-> "invalid", writer |-> "save", data |-> EmptyConfig]
      [] OTHER -> file

InitConfig ==
    /\ CoreIdle
    /\ VoiceIdle
    /\ ParseIdle
    /\ WaitIdle
    /\ SpeakIdle
    /\ ShopIdle
    /\ c_env \in EnvValues
    /\ c_file \in ConfigFiles
    /\ c_settings = [loaded |-> FALSE, s |-> DefaultSettings]
    /\ c_reads = 0
    /\ c_last = "new"
    /\ c_returned = DefaultSettings

ConfigOthers ==
    UNCHANGED <<coreVars, voiceVars, parseVars, waitVars, speakVars, shopVars>>

\* load() or get_settings() with nothing cached: file and environment are
\* read and the result is kept.
ConfigLoad ==
    /\ ~c_settings.loaded
    /\ c_settings' = [loaded |-> TRUE, s |-> load(c_file, c_env)]
    /\ c_returned' = load(c_file, c_env)
    /\ c_reads' = c_reads + 1
    /\ c_last' = "load"
    /\ UNCHANGED <<c_env, c_file>>
    /\ ConfigOthers

\* load() or get_settings() later on (lines 114-115, 192-194).
ConfigCached ==
    /\ c_settings.loaded
    /\ c_last # "cached"
    /\ c_returned' = c_settings.s
    /\ c_last' = "cached"
    /\ UNCHANGED <<c_env, c_file, c_settings, c_reads>>
    /\ ConfigOthers

\* After the load the API key of the environment is changed.
EnvironmentChanges ==
    /\ c_last = "load"
    /\ \E k \in {UnsetStr, Some("envkey"), Some("otherkey")} :
          /\ k # c_env.GEMINI_API_KEY
          /\ c_env' = [c_env EXCEPT !.GEMINI_API_KEY = k]
    /\ UNCHANGED <<c_file, c_settings, c_reads, c_last, c_returned>>
    /\ ConfigOthers

\* After the load the config file is removed.
ConfigFileRemoved ==
    /\ c_last = "load"
    /\ c_file.kind # "missing"
    /\ c_file' = NoConfigFile
    /\ UNCHANGED <<c_env, c_settings, c_reads, c_last, c_returned>>
    /\ ConfigOthers

\* save(settings), lines 172-188, with the settings the manager holds.
SaveSettings ==
    /\ c_settings.loaded
    /\ c_last # "save"
    /\ \E out \in SaveOutcomes :
          c_file' = FileAfterSave(c_file, c_settings.s, out)
    /\ c_last' = "save"
    /\ UNCHANGED <<c_env, c_settings, c_reads, c_returned>>
    /\ ConfigOthers

\* update_settings(gemini=GeminiSettings(api_key=k)), lines 196-207:
\* get_settings, setattr, save, and the settings are kept.
UpdateSettings ==
    /\ c_last # "update"
    /\ \E k \in {UnsetStr, Some("newkey")}, out \in SaveOutcomes :
          LET settings == IF c_settings.loaded THEN c_settings.s
                          ELSE load(c_file, c_env)
              updated == [settings EXCEPT
                             !.api_key = k,
                             !.timeout = DefaultSettings.timeout,
                             !.model = DefaultSettings.model]
          IN  /\ c_settings' = [loaded |-> TRUE, s |-> updated]
              /\ c_file' = FileAfterSave(c_file, updated, out)
    /\ c_reads' = IF c_settings.loaded THEN c_reads ELSE c_reads + 1
    /\ c_last' = "update"
    /\ UNCHANGED <<c_env, c_returned>>
    /\ ConfigOthers

NextConfig ==
    \/ ConfigLoad
    \/ ConfigCached
    \/ EnvironmentChanges
    \/ ConfigFileRemoved
    \/ SaveSettings
    \/ UpdateSettings

SpecConfig == InitConfig /\ [][NextConfig]_vars

-----------------------------------------------------------------------------
(* Claims about ConfigManager *)

\* The file as save leaves it for settings whose fields other than the key
\* are those of s: every field written, the key as null.
KeylessFile(s) ==
    [api_key |-> Present(UnsetStr), level |-> Present(s.level),
     data_dir |-> Present(s.data_dir),
     confidence_threshold |-> Present(s.confidence_threshold),
     timeout |-> Present(s.timeout), model |-> Present(s.model)]

WrittenBySave(file) == file.writer = "save" /\ file.kind = "valid"

\* C14: save never writes the Gemini API key.  A file that save has written
\* holds null under gemini.api_key; what a call of save or update_settings
\* writes depends only on the fields other than the key, so two settings
\* that differ only in the key give the same file; and save leaves the
\* settings object, its key included, as it was.
C14_SaveNeverWritesKey ==
    /\ [](WrittenBySave(c_file) => c_file.data.api_key = Present(UnsetStr))
    /\ [][(c_file' # c_file /\ WrittenBySave(c_file'))
            => c_file'.data = KeylessFile(c_settings'.s)]_vars
    /\ [][c_last' = "save" => c_settings' = c_settings]_vars

\* save has written the file while the settings hold a key taken from the
\* environment.
C14_Witness ==
    /\ c_last = "save"
    /\ WrittenBySave(c_file)
    /\ c_settings.s.api_key = Some("envkey")
    /\ c_file.data.api_key = Present(UnsetStr)
    /\ c_file.data.level = Present(c_settings.s.level)

\* The value an environment variable gives a setting: none when it is not
\* set or empty, and none for a float setting when it is no number.
EnvGives(env) ==
    [api_key |-> IF TruthyStr(env.GEMINI_API_KEY)
                 THEN Present(Some(env.GEMINI_API_KEY.v)) ELSE AbsentKey,
     level |-> IF TruthyStr(env.LOG_LEVEL)
               THEN Present(Upper(env.LOG_LEVEL.v)) ELSE AbsentStr,
     data_dir |-> IF TruthyStr(env.DATA_DIR)
                  THEN Present(env.DATA_DIR.v) ELSE AbsentStr,
     confidence_threshold |->
        IF TruthyStr(env.OCR_CONFIDENCE) /\ ParseFloat(env.OCR_CONFIDENCE.v).ok
        THEN Present(ParseFloat(env.OCR_CONFIDENCE.v).val) ELSE AbsentNum,
     timeout |->
        IF TruthyStr(env.GEMINI_TIMEOUT) /\ ParseFloat(env.GEMINI_TIMEOUT.v).ok
        THEN Present(ParseFloat(env.GEMINI_TIMEOUT.v).val) ELSE AbsentNum,
     model |-> AbsentStr]

\* Environment over file over default, field by field.
Resolved(s, file, env) ==
    \A f \in DOMAIN DefaultSettings :
        s[f] = IF EnvGives(env)[f].has THEN EnvGives(env)[f].val
               ELSE IF file.kind = "valid" /\ file.data[f].has
                    THEN file.data[f].val
               ELSE DefaultSettings[f]

\* C15: load resolves every setting with the precedence environment
\* variable, then config file, then default, and returns also when the
\* config file cannot be read or is invalid (then defaults with the
\* environment applied); later load and get_settings calls return the
\* cached settings without reading file or environment again.
C15_LoadPrecedence ==
    /\ [][(~c_settings.loaded /\ c_last' = "load")
            => (/\ c_settings'.loaded
                /\ Resolved(c_settings'.s, c_file, c_env)
                /\ c_returned' = c_settings'.s)]_vars
    /\ [](c_last = "cached" => c_returned = c_settings.s)
    /\ [](c_reads <= 1)

\* A cached get_settings after the environment changed: the settings still
\* hold the log level of the environment over that of the file, the data
\* directory of the file, the default confidence beside an OCR_CONFIDENCE
\* that is no number, and a key that reading again would not give.
C15_Witness ==
    /\ c_last = "cached"
    /\ c_reads = 1
    /\ c_returned = c_settings.s
    /\ c_file.kind = "valid"
    /\ c_file.data.level = Present("WARNING")
    /\ c_settings.s.level = "DEBUG"
    /\ c_file.data.data_dir = Present("filedata")
    /\ c_settings.s.data_dir = "filedata"
    /\ c_env.OCR_CONFIDENCE = Some("abc")
    /\ c_settings.s.confidence_threshold = DefaultSettings.confidence_threshold
    /\ c_settings.s.api_key = Some("envkey")
    /\ c_env.GEMINI_API_KEY = Some("otherkey")

-----------------------------------------------------------------------------
(* ocr/detect_shop.py: wait_for_shop *)

\* Lines 28-33: the checks made before the loop; "" when both pass.
WaitPrecondition(args) ==
    CASE args = "bad_confidence" -> "ValueError"
      [] args = "no_image" -> "FileNotFoundError"
      [] OTHER -> ""

\* Line 43: timeout and (time.time() - start_time) > timeout.  None and 0
\* are false.
TimedOut(timeout, elapsed) ==
    timeout.set /\ timeout.v # 0 /\ elapsed > timeout.v

Timeouts == {Unset, Some(-1), Some(0), Some(1), Some(3)}

\* What pyautogui.locateOnScreen ends in: a location, None or
\* ImageNotFoundException, or another exception.
LocateOutcomes == {"located", "not_found", "error"}

\* Seconds one detection attempt may take, before the sleeps.
LocateSeconds == {0, 1}

StabilitySleep == 2     \* time.sleep(2) after a detection
RetrySleep == 1         \* time.sleep(1) at the end of an iteration

InitWait ==
    /\ CoreIdle
    /\ VoiceIdle
    /\ ParseIdle
    /\ ConfigIdle
    /\ SpeakIdle
    /\ ShopIdle
    /\ w_args \in {"ok", "bad_confidence", "no_image"}
    /\ w_timeout \in Timeouts
    /\ w_elapsed = 0
    /\ w_pc = "call"
    /\ w_log = <<>>
    /\ w_result = ""

WaitOthers ==
    UNCHANGED <<coreVars, voiceVars, parseVars, cfgVars, speakVars, shopVars>>

\* Lines 28-38: the arguments are checked and start_time is taken.
WaitBegins ==
    /\ w_pc = "call"
    /\ IF WaitPrecondition(w_args) = ""
       THEN /\ w_pc' = "loop"
            /\ UNCHANGED w_result
       ELSE /\ w_pc' = "done"
            /\ w_result' = WaitPrecondition(w_args)
    /\ UNCHANGED <<w_args, w_timeout, w_elapsed, w_log>>
    /\ WaitOthers

\* Lines 43-45: the timeout check at the top of an iteration succeeds.
WaitTimesOut ==
    /\ w_pc = "loop"
    /\ TimedOut(w_timeout, w_elapsed)
    /\ w_result' = "False"
    /\ w_pc' = "done"
    /\ UNCHANGED <<w_args, w_timeout, w_elapsed, w_log>>
    /\ WaitOthers

\* Lines 47-51: the indicator is located; after the pause True is returned.
WaitLocates ==
    /\ w_pc = "loop"
    /\ ~TimedOut(w_timeout, w_elapsed)
    /\ \E d \in LocateSeconds : w_elapsed' = w_elapsed + d + StabilitySleep
    /\ w_log' = Append(w_log, "located")
    /\ w_result' = "True"
    /\ w_pc' = "done"
    /\ UNCHANGED <<w_args, w_timeout>>
    /\ WaitOthers

\* Lines 47-60: the attempt finds nothing or raises; both except clauses
\* fall through to time.sleep(1) and the loop goes on.
WaitTriesAgain ==
    /\ w_pc = "loop"
    /\ ~TimedOut(w_timeout, w_elapsed)
    /\ w_elapsed < MaxElapsed
    /\ \E out \in LocateOutcomes \ {"located"}, d \in LocateSeconds :
          /\ w_log' = Append(w_log, out)
          /\ w_elapsed' = w_elapsed + d + RetrySleep
    /\ UNCHANGED <<w_args, w_timeout, w_pc, w_result>>
    /\ WaitOthers

NextWait ==
    \/ WaitBegins
    \/ WaitTimesOut
    \/ WaitLocates
    \/ WaitTriesAgain

SpecWait == InitWait /\ [][NextWait]_vars

-----------------------------------------------------------------------------
(* Claims about wait_for_shop *)

\* C16: wait_for_shop returns True only after the shop indicator was
\* located; for every timeout t other than None, an iteration that begins
\* when more than t seconds have passed without a detection returns False;
\* with timeout None it never returns False; and an error raised by a
\* detection attempt leaves the wait going.
C16_WaitForShopTimeout ==
    /\ [](w_result = "True"
            => (w_log # <<>> /\ w_log[Len(w_log)] = "located"))
    /\ [][(w_pc = "loop" /\ w_timeout.set /\ w_elapsed > w_timeout.v)
            => (w_pc' = "done" /\ w_result' = "False")]_vars
    /\ [](~w_timeout.set => w_result # "False")
    /\ [][w_log' = Append(w_log, "error") => w_pc' = "loop"]_vars

-----------------------------------------------------------------------------
(* assistant/tts_utils.py: speak *)

\* A text is a value that is no string, a string of spaces only, or a
\* string given by the lengths of the pieces that split('. ') cuts the
\* stripped text into.
NoText == [t |-> "none", blank |-> FALSE, sentences |-> <<>>]
IntText == [t |-> "int", blank |-> FALSE, sentences |-> <<>>]
BlankText == [t |-> "str", blank |-> TRUE, sentences |-> <<>>]
StrText(lens) == [t |-> "str", blank |-> FALSE, sentences |-> lens]

SpeakLimit == 500   \* line 25

RECURSIVE SumLen(_)
SumLen(lens) == IF lens = <<>> THEN 0 ELSE Head(lens) + SumLen(Tail(lens))

\* len(text.strip()): the pieces and the '. ' between them.
TextLen(text) ==
    IF text.blank \/ text.sentences = <<>> THEN 0
    ELSE SumLen(text.sentences) + 2 * (Len(text.sentences) - 1)

\* Line 17: not text or not isinstance(text, str).
InvalidText(text) ==
    text.t # "str" \/ (~text.blank /\ TextLen(text) = 0)

\* Lines 28-33: sentences are added while the result stays within the
\* limit; the first one that does not fit ends the loop.
RECURSIVE ShortenedLen(_, _)
ShortenedLen(shortened, rest) ==
    IF rest = <<>> THEN shortened
    ELSE IF shortened + 2 + Head(rest) <= SpeakLimit
         THEN ShortenedLen(shortened + 2 + Head(rest), Tail(rest))
         ELSE shortened

\* Lines 22-34: the text handed to the command.
SpokenText(text) ==
    IF TextLen(text) <= SpeakLimit
    THEN [len |-> TextLen(text), ellipsis |-> FALSE]
    ELSE LET kept == ShortenedLen(Head(text.sentences), Tail(text.sentences))
         IN  IF TextLen(text) > kept
             THEN [len |-> kept + 3, ellipsis |-> TRUE]
             ELSE [len |-> kept, ellipsis |-> FALSE]

\* How subprocess.run(["say", text], check=True, ...) ends: it returns,
\* or raises TimeoutExpired, CalledProcessError, FileNotFoundError or
\* something else.
RunOutcomes == {"ok", "timeout", "nonzero_exit", "missing", "other_error"}

\* A slip: the last except clause re-raises.
SpeakReturnsReraising(outcome) ==
    CASE outcome = "ok" -> "True"
      [] outcome = "other_error" -> "OSError"
      [] OTHER -> "False"

\* Lines 36-61: True after a run that returned, False from every except
\* clause.
SpeakReturns(outcome) == IF outcome = "ok" THEN "True" ELSE "False"

SentenceLens == {0, 1, 200, 300, 600}

\* text.strip() leaves no text that ends in '. ', so only a text of one
\* piece has an empty last piece.
Texts ==
    {NoText, IntText, BlankText} \cup
    {StrText(lens) : lens \in
        {l \in SeqsUpTo(SentenceLens, MaxSentences) :
            l # <<>> /\ (Len(l) > 1 => l[Len(l)] # 0)}}

InitSpeak ==
    /\ CoreIdle
    /\ VoiceIdle
    /\ ParseIdle
    /\ ConfigIdle
    /\ WaitIdle
    /\ ShopIdle
    /\ t_text \in Texts
    /\ t_pc = "call"
    /\ t_ran = FALSE
    /\ t_said = [len |-> 0, ellipsis |-> FALSE]
    /\ t_outcome = ""
    /\ t_result = ""

SpeakOthers ==
    UNCHANGED <<coreVars, voiceVars, parseVars, cfgVars, waitVars, shopVars>>

\* Lines 17-19: the early return.
SpeakRejects ==
    /\ t_pc = "call"
    /\ InvalidText(t_text)
    /\ t_result' = "False"
    /\ t_pc' = "done"
    /\ UNCHANGED <<t_text, t_ran, t_said, t_outcome>>
    /\ SpeakOthers

\* Lines 22-43: the text is trimmed and shortened and the command started.
SayStarts ==
    /\ t_pc = "call"
    /\ ~InvalidText(t_text)
    /\ t_said' = SpokenText(t_text)
    /\ t_ran' = TRUE
    /\ t_pc' = "run"
    /\ UNCHANGED <<t_text, t_outcome, t_result>>
    /\ SpeakOthers

\* Lines 37-61: the command ends and speak returns.
SayEnds ==
    /\ t_pc = "run"
    /\ \E out \in RunOutcomes :
          /\ t_outcome' = out
          /\ t_result' = SpeakReturns(out)
    /\ t_pc' = "done"
    /\ UNCHANGED <<t_text, t_ran, t_said>>
    /\ SpeakOthers

NextSpeak ==
    \/ SpeakRejects
    \/ SayStarts
    \/ SayEnds

SpecSpeak == InitSpeak /\ [][NextSpeak]_vars

-----------------------------------------------------------------------------
(* Claims about speak *)

\* C17: speak never raises.  For an empty text or one that is no string it
\* returns False without invoking the command; when the command times out,
\* exits non-zero or is missing it returns False; and it returns True only
\* when the command was run and completed.
C17_SpeakNeverRaises ==
    t_pc = "done" =>
        /\ t_result \in {"True", "False"}
        /\ (t_text.t # "str" \/ (~t_text.blank /\ TextLen(t_text) = 0))
              => (t_result = "False" /\ ~t_ran)
        /\ t_outcome \in {"timeout", "nonzero_exit", "missing"}
              => t_result = "False"
        /\ t_result = "True" => (t_ran /\ t_outcome = "ok")

\* A long text was shortened and handed to the command, which failed in a
\* way none of the named except clauses covers; speak returned False.
C17_Witness ==
    /\ t_pc = "done"
    /\ t_ran
    /\ t_said.ellipsis
    /\ t_outcome = "other_error"
    /\ t_result = "False"

-----------------------------------------------------------------------------
(* ocr/shop_monitor.py: monitor_shop_loop_once *)

\* An entry of the module's champions list: the dict as match_champ sees
\* it, and whether it has the "cost" and "traits" the last loop prints.
ShopChampion(champ, printable) == [champ |-> champ, printable |-> printable]

\* The list handed to match_champ at line 21.
ChampionDicts(champions) ==
    [i \in 1..Len(champions) |-> champions[i].champ]

\* Lines 18, 22, 25: the three kinds of entry appended to matched.
OcrFailed == [kind |-> "ocr_failed", idx |-> 0, text |-> PyNone]
FoundChampion(i) == [kind |-> "champion", idx |-> i, text |-> PyNone]
NotFound(name) == [kind |-> "not_found", idx |-> 0, text |-> name]

\* Line 17: not name, for None and for the empty string.
NoSlotText(name) == ~IsStr(name) \/ name.s = <<>>

\* matching.py line 47: the threshold match_champ is called with.
DefaultThreshold == 80

\* Line 21: match_champ(champions, name), fuzzy matching on by default.
ShopMatch(champions, name) ==
    match_champ(ChampionDicts(champions), name, TRUE, DefaultThreshold)

\* Lines 28-32: the lines printed for matched, up to the first champion
\* whose "cost" or "traits" is missing; an entry with "error" prints its
\* name and its error.
RECURSIVE PrintedUpTo(_, _, _)
PrintedUpTo(champions, matched, i) ==
    IF i > Len(matched) THEN <<>>
    ELSE IF matched[i].kind = "champion" /\ ~champions[matched[i].idx].printable
         THEN <<>>
         ELSE <<i>> \o PrintedUpTo(champions, matched, i + 1)

SlotTexts ==
    {PyNone, Str(<<>>), Str(<<" ">>), Str(<<"a", "b">>),
     Str(<<"a", "b", "b">>)}

ShopChampions ==
    {ShopChampion(DictEntry(Str(<<"a", "b">>)), TRUE),
     ShopChampion(DictEntry(Str(<<"a", "b">>)), FALSE),
     ShopChampion(DictEntry(Str(<<"b", "a">>)), TRUE),
     ShopChampion(DictEntry(PyNone), TRUE),
     ShopChampion(NamelessDict, TRUE)}

InitShop ==
    /\ CoreIdle
    /\ VoiceIdle
    /\ ParseIdle
    /\ ConfigIdle
    /\ WaitIdle
    /\ SpeakIdle
    /\ sh_champions = <<>>
    /\ sh_names = <<>>
    /\ sh_pc = "import"
    /\ sh_matched = <<>>
    /\ sh_printed = <<>>
    /\ sh_raised = ""

ShopOthers ==
    UNCHANGED <<coreVars, voiceVars, parseVars, cfgVars, waitVars, speakVars>>

\* Line 1: ocr.capture defines no extract_text_from_images, so importing
\* the module raises ImportError.
ShopImportFails ==
    /\ sh_pc = "import"
    /\ sh_raised' = "ImportError"
    /\ sh_pc' = "import_error"
    /\ UNCHANGED <<sh_champions, sh_names, sh_matched, sh_printed>>
    /\ ShopOthers

\* Lines 1-4 with an ocr.capture that provides extract_text_from_images.
ShopImported ==
    /\ sh_pc = "import"
    /\ sh_pc' = "load"
    /\ UNCHANGED <<sh_champions, sh_names, sh_matched, sh_printed, sh_raised>>
    /\ ShopOthers

\* Line 7, matching.py lines 22-24: the argument is taken as a file name,
\* and without a file named "data/champs_*.json" load_champ raises
\* FileNotFoundError, which ends the import.
ShopLoadFails ==
    /\ sh_pc = "load"
    /\ sh_raised' = "FileNotFoundError"
    /\ sh_pc' = "import_error"
    /\ UNCHANGED <<sh_champions, sh_names, sh_matched, sh_printed>>
    /\ ShopOthers

\* Line 7, matching.py lines 26-34: a file of that very name holds a list,
\* which becomes the module's champions.
ShopLoads ==
    /\ sh_pc = "load"
    /\ sh_champions' \in SeqsUpTo(ShopChampions, MaxChamps)
    /\ sh_pc' = "loaded"
    /\ UNCHANGED <<sh_names, sh_matched, sh_printed, sh_raised>>
    /\ ShopOthers

\* Lines 9-13: monitor_shop_loop_once is called, and
\* extract_text_from_images gives the texts of the slots.
ShopCycleBegins ==
    /\ sh_pc = "loaded"
    /\ sh_names' \in SeqsUpTo(SlotTexts, MaxSlots)
    /\ sh_pc' = "match"
    /\ UNCHANGED <<sh_champions, sh_matched, sh_printed, sh_raised>>
    /\ ShopOthers

NextSlot == Len(sh_matched) + 1

\* Lines 16-19: a slot without text.
SlotUnread ==
    /\ sh_pc = "match"
    /\ NextSlot <= Len(sh_names)
    /\ NoSlotText(sh_names[NextSlot])
    /\ sh_matched' = Append(sh_matched, OcrFailed)
    /\ UNCHANGED <<sh_champions, sh_names, sh_pc, sh_printed, sh_raised>>
    /\ ShopOthers

\* Lines 21-25: the slot's text is looked up and the champion found, or
\* the text itself, is appended.
SlotMatched ==
    /\ sh_pc = "match"
    /\ NextSlot <= Len(sh_names)
    /\ ~NoSlotText(sh_names[NextSlot])
    /\ LET name == sh_names[NextSlot]
           champ == ShopMatch(sh_champions, name)
       IN  /\ ~champ.raised
           /\ sh_matched' =
                 Append(sh_matched,
                        IF champ.idx # 0 THEN FoundChampion(champ.idx)
                        ELSE NotFound(name))
    /\ UNCHANGED <<sh_champions, sh_names, sh_pc, sh_printed, sh_raised>>
    /\ ShopOthers

\* Line 21: match_champ raises and the call ends there.
SlotMatchRaises ==
    /\ sh_pc = "match"
    /\ NextSlot <= Len(sh_names)
    /\ ~NoSlotText(sh_names[NextSlot])
    /\ ShopMatch(sh_champions, sh_names[NextSlot]).raised
    /\ sh_raised' = "AttributeError"
    /\ sh_pc' = "done"
    /\ UNCHANGED <<sh_champions, sh_names, sh_matched, sh_printed>>
    /\ ShopOthers

\* Lines 27-32: the results are printed, one line each.
PrintMatched ==
    /\ sh_pc = "match"
    /\ NextSlot > Len(sh_names)
    /\ sh_printed' = PrintedUpTo(sh_champions, sh_matched, 1)
    /\ sh_raised' =
          IF Len(sh_printed') < Len(sh_matched) THEN "KeyError" ELSE ""
    /\ sh_pc' = "done"
    /\ UNCHANGED <<sh_champions, sh_names, sh_matched>>
    /\ ShopOthers

NextShop ==
    \/ ShopImportFails
    \/ ShopImported
    \/ ShopLoadFails
    \/ ShopLoads
    \/ ShopCycleBegins
    \/ SlotUnread
    \/ SlotMatched
    \/ SlotMatchRaises
    \/ PrintMatched

SpecShop == InitShop /\ [][NextShop]_vars

-----------------------------------------------------------------------------
(* Claims about monitor_shop_loop_once *)

\* What the claim expects for slot i.
ExpectedForSlot(i) ==
    LET name == sh_names[i]
        found == match_champ(ChampionDicts(sh_champions), name, TRUE, 80)
    IN  IF ~IsStr(name) \/ name.s = <<>>
        THEN sh_matched[i].kind = "ocr_failed"
        ELSE IF ~found.raised /\ found.idx # 0
        THEN sh_matched[i].kind = "champion" /\ sh_matched[i].idx = found.idx
        ELSE sh_matched[i].kind = "not_found" /\ sh_matched[i].text = name

\* C21: a call of monitor_shop_loop_once ends with exactly one result per
\* slot read, in slot order: "OCR failed" for a slot without text, the
\* database champion when match_champ finds one, "Not found" with the text
\* otherwise; every slot is reported once, none is dropped.
C21_OneResultPerSlot ==
    sh_pc = "done" =>
        /\ sh_raised = ""
        /\ Len(sh_matched) = Len(sh_names)
        /\ \A i \in 1..Len(sh_matched) : ExpectedForSlot(i)
        /\ sh_printed = [i \in 1..Len(sh_names) |-> i]

=============================================================================
